---- MODULE Spec2Model ----
(***************************************************************************)
(* brood: a supervisor (Monitor) that starts shell commands, follows their *)
(* Started/Stopped events, restarts them, reacts to file events and shuts  *)
(* them down.  The model follows src/brood/monitor.py, src/brood/command.py *)
(* and src/brood/config.py.  monitor.py names the Command class            *)
(* CommandManager, its config field command_config and the event's command *)
(* event.manager; the model uses the names of command.py.                  *)
(***************************************************************************)
EXTENDS Integers, Sequences, FiniteSets, Bags, TLC

VARIABLES
    config,     \* the BroodConfig the run was given: [failure_mode, commands]
    cmds,       \* every Command ever created, in creation order (index = identity)
    managers,   \* Monitor.managers: the Commands the Monitor holds (list kept in creation order)
    events,     \* Fanout[Event]: <<renderer's consumer, Monitor.run's consumer>>
    messages,   \* Fanout[Message]: <<renderer's consumer>>, its CommandMessages
    internal,   \* Fanout[Message]: the InternalMessages put on it, as a bag
    run,        \* Monitor.run: "start" (await self.start()), "wait" (await wait(...)), "returned", "raised"
    exc,        \* the exception Monitor.__aexit__ was entered with
    aexit,      \* position inside Monitor.__aexit__
    waitset,    \* the Commands the running Monitor.wait gathered wait() for
    handler,    \* handle_managers task: "idle", "delay", "KillOthers", "ValueError"
    harg,       \* handle_managers: <<config>> it is re-starting, <<Command>> that KillOthers carries
    watcher,    \* handle_watchers task: "idle", "buffer", "starting"
    wqueue,     \* the queue the file-watch handlers put (config, event) on
    starts,     \* handle_watchers: the items drain_queue has taken in this window
    inflight,   \* start_command calls that are awaiting Command.start: [by, config, n]
    stopped,    \* the FileWatchers' observers were stopped
    nfile,      \* number of file events delivered so far
    fq,         \* a Fanout under test: its consumer queues
    fput,       \* every item put on fq, in put order
    fjoin,      \* per consumer of fq: how many puts preceded its consumer() call
    fgot,       \* per consumer of fq: the items it has dequeued so far
    calls,      \* the calls a caller other than the Monitor made: <<method, Command>>
    xphase,     \* main.run / Executor: "load", "run", "aexit", "final", "unmounted", "exited"
    xexc,       \* the exception that ended BroodConfig.load or Executor.run
    xstop,      \* the stop_monitor task: "none", "running", "done", "raised"
    xdrain,     \* the current drain_renderer task: "none", "running", "checked", "done"
    xq,         \* number of messages in the renderer's messages queue
    xpub,       \* number of messages Monitor.stop has put
    xcode,      \* the exit code of the process, <<>> while it runs
    xreason,    \* the message Executor.__aexit__ put for the exception it was entered with
    dqueue,     \* a queue drain_queue is called on
    dput,       \* every item put on dqueue, in put order
    dbuffer,    \* drain_queue's buffer argument: a sequence, <<>> for None
    dtaken,     \* drain_queue: the items taken, one sequence per pass of its loop
    dpc,        \* drain_queue: "get", "sleep", "returned"
    cext,       \* the extension of the path BroodConfig.load and save are called with
    cfile,      \* the file at that path: <<>> when there is none, else <<content>>
    clog,       \* the load and save calls made on the path: [op, end]
    rverbosity, \* Renderer.verbosity
    rmessages,  \* Renderer.messages: the queue handle_messages gets from
    rgot,       \* every message handle_messages has taken, in order
    rshown      \* the messages handed to handle_internal_message or handle_command_message

vars == <<config, cmds, managers, events, messages, internal, run, exc, aexit, waitset,
          handler, harg, watcher, wqueue, starts, inflight, stopped, nfile,
          fq, fput, fjoin, fgot, calls, xphase, xexc, xstop, xdrain, xq, xpub, xcode,
          xreason, dqueue, dput, dbuffer, dtaken, dpc, cext, cfile, clog,
          rverbosity, rmessages, rgot, rshown>>

mvars == <<config, cmds, managers, events, messages, internal, run, exc, aexit,
           waitset, handler, harg, watcher, wqueue, starts, inflight, stopped, nfile>>

fvars == <<fq, fput, fjoin, fgot>>

tvars == <<calls>>

dvars == <<dqueue, dput, dbuffer, dtaken, dpc>>

cvars == <<cext, cfile, clog>>
rvars == <<rverbosity, rmessages, rgot, rshown>>

xvars == <<xphase, xexc, xstop, xdrain, xq, xpub, xcode, xreason>>

\* the Executor's task and queue state, without the message of its __aexit__
xtasks == <<xphase, xexc, xstop, xdrain, xq, xpub, xcode>>

----------------------------------------------------------------------------
(* Bounds *)

MaxCmds == 3
MaxFileEvents == 1
MaxPuts == 3
MaxConsumers == 2
MaxBurst == 3
MaxCalls == 3
MaxStopMessages == 2
MaxQueuePuts == 3
MaxConfigCalls == 2

----------------------------------------------------------------------------
(* Fanout (its module is not part of the sources; modelled from its        *)
(* contract and src/tests/test_fanout.py)                                  *)

\* Fanout.consumer(): register a new, empty consumer queue
FanoutConsumer(f) == Append(f, <<>>)

\* a put that reaches the first consumer only
FanoutPutFirstOnly(f, item) ==
    [i \in DOMAIN f |-> IF i = 1 THEN Append(f[i], item) ELSE f[i]]

\* Fanout.put(item): enqueue item on every registered consumer's queue
FanoutPut(f, item) == [i \in DOMAIN f |-> Append(f[i], item)]

\* a get that takes the item off every consumer's queue: one shared backlog
FanoutGetShared(f, i) ==
    [j \in DOMAIN f |-> IF f[j] # <<>> THEN Tail(f[j]) ELSE f[j]]

\* Queue.get on consumer i
FanoutGet(f, i) == [f EXCEPT ![i] = Tail(f[i])]

----------------------------------------------------------------------------
(* Configuration (src/brood/config.py)                                     *)

CONTINUE == "continue"
KILL_OTHERS == "kill_others"

OnceConfig == [type |-> "once", allow_multiple |-> FALSE, after |-> {}]
RestartConfig == [type |-> "restart", allow_multiple |-> FALSE, after |-> {}]
WatchConfig(allow_multiple) == [type |-> "watch", allow_multiple |-> allow_multiple, after |-> {}]
AfterConfig(after) == [type |-> "after", allow_multiple |-> FALSE, after |-> after]

\* shutdown = "" stands for None
CommandConfig(name, command, shutdown, starter) ==
    [name |-> name, command |-> command, shutdown |-> shutdown, starter |-> starter]

\* command.copy(update={"command": command.shutdown, "starter": OnceConfig()})
shutdown_config(c) == [c EXCEPT !.command = c.shutdown, !.starter = OnceConfig]

\* RestartConfig.restart_on_exit, read by handle_managers; the field is not in
\* config.py, a Restart command is re-started on every exit
restart_on_exit(starter) == TRUE

\* AfterStarter
AfterStarter(waiting_for) == [waiting_for |-> waiting_for, done |-> {}]
AfterStarter_can_start(s) == s.waiting_for \subseteq s.done
AfterStarter_was_started(s) == [s EXCEPT !.done = {}]
AfterStarter_handle_event(s, type, exit_code, name) ==
    IF type = "Stopped" /\ exit_code = <<0>>
    THEN [s EXCEPT !.done = s.done \cup {name}]
    ELSE s

----------------------------------------------------------------------------
(* The shell commands the configurations run: exit status and output       *)

\* <<>> : the command does not exit by itself
ExitStatus(command) ==
    CASE command = "exit 0" -> <<0>>
      [] command = "exit 1" -> <<1>>
      [] command = "echo hi" -> <<0>>
      [] command = "echo bye" -> <<0>>
      [] command = "echo 'hi '; echo bye 1>&2" -> <<0>>
      [] command = "cat image.png; echo hi" -> <<0>>
      [] command = "echo hi; echo; echo bye" -> <<0>>
      [] OTHER -> <<>>

\* the lines the command writes to stdout and stderr (one pipe:
\* stderr=STDOUT), as characters, newline included
Output(command) ==
    CASE command = "echo hi" -> << <<"h", "i", "\n">> >>
      [] command = "echo bye" -> << <<"b", "y", "e", "\n">> >>
      [] command = "echo 'hi '; echo bye 1>&2" ->
            << <<"h", "i", " ", "\n">>, <<"b", "y", "e", "\n">> >>
      [] command = "cat image.png; echo hi" ->
            << <<"0x89", "P", "N", "G", "\n">>, <<"h", "i", "\n">> >>
      [] command = "echo hi; echo; echo bye" ->
            << <<"h", "i", "\n">>, <<"\n">>, <<"b", "y", "e", "\n">> >>
      [] OTHER -> <<>>

\* the command's shell ignores SIGTERM, and so do its children
IgnoresSIGTERM(command) == command = "trap '' TERM; sleep 1000"

SIGTERM == 15
SIGKILL == 9

Whitespace == {" ", "\n", "\t", "\r"}

\* bytes.decode("utf-8") succeeds: no byte of the line is invalid in UTF-8
\* ("0x89" stands for the byte 0x89, a continuation byte with no lead byte)
Decodable(line) == \A k \in DOMAIN line : line[k] # "0x89"

\* a strip that removes the newline only
rstripNewlineOnly(line) ==
    IF line # <<>> /\ line[Len(line)] = "\n"
    THEN SubSeq(line, 1, Len(line) - 1)
    ELSE line

\* str.rstrip()
RECURSIVE rstrip(_)
rstrip(line) ==
    IF line # <<>> /\ line[Len(line)] \in Whitespace
    THEN rstrip(SubSeq(line, 1, Len(line) - 1))
    ELSE line

----------------------------------------------------------------------------
(* Messages and events (src/brood/message.py, src/brood/event.py)          *)

InternalMessage(text) == [type |-> "internal", text |-> text]
CommandMessage(text, command_config, command) ==
    [type |-> "command", text |-> text, command_config |-> command_config, command |-> command]
Event(command, type) == [command |-> command, type |-> type]

\* messages.put(InternalMessage(...)): the order of the internal messages
\* in the consumers' queues is not kept, their number is
PutInternal(b, message) == b (+) SetToBag({message})

RECURSIVE PutAll(_, _)
PutAll(b, items) ==
    IF items = <<>> THEN b ELSE PutAll(PutInternal(b, Head(items)), Tail(items))

Min(S) == CHOOSE x \in S : \A y \in S : x <= y

DEBUG == "debug"
INFO == "info"
WARNING == "warning"
ERROR == "error"

\* Verbosity.__int__
Verbosity__int__(v) ==
    CASE v = DEBUG -> 0
      [] v = INFO -> 1
      [] v = WARNING -> 2
      [] v = ERROR -> 3

\* the place of a member's value among the values in str order:
\* "debug" < "error" < "info" < "warning"
StrRank(v) ==
    CASE v = DEBUG -> 0
      [] v = ERROR -> 1
      [] v = INFO -> 2
      [] v = WARNING -> 3

\* Verbosity.__le__: Verbosity(str, Enum) inherits __le__ from str, and
\* total_ordering leaves alone a comparison the class already has, so <=
\* compares the values as strings
Verbosity__le__(a, b) == StrRank(a) <= StrRank(b)

\* Renderer.handle_messages: the message is handed on to
\* handle_internal_message or handle_command_message
Handled(message, verbosity) ==
    IF message.type = "internal"
    THEN Verbosity__le__(message.verbosity, verbosity)
    ELSE TRUE

\* an Executor.__aexit__ that reports every exception as an interrupt
ExecutorReasonAlwaysInterrupt(exc_type) ==
    IF exc_type = "None" THEN <<>>
    ELSE <<[message |-> InternalMessage(<<"Shutting down due to:", "keyboard interrupt">>),
            verbosity |-> INFO]>>

\* Executor.__aexit__: the message it puts for the exception type it was
\* entered with, and the message's verbosity; "traceback" stands for the
\* text of traceback.format_exc()
ExecutorReason(exc_type) ==
    CASE exc_type = "None" -> <<>>
      [] exc_type = "CancelledError" ->
            <<[message |-> InternalMessage(<<"Shutting down due to:", "keyboard interrupt">>),
               verbosity |-> INFO]>>
      [] exc_type = "KillOthers" ->
            <<[message |-> InternalMessage(<<"Shutting down due to:", "command failing">>),
               verbosity |-> INFO]>>
      [] OTHER ->
            <<[message |-> InternalMessage(<<"Shutting down due to internal error.", "traceback">>),
               verbosity |-> ERROR]>>

\* the elements of a set of Commands in list (creation) order
RECURSIVE InOrder(_)
InOrder(S) == IF S = {} THEN <<>> ELSE <<Min(S)>> \o InOrder(S \ {Min(S)})

----------------------------------------------------------------------------
(* Command (src/brood/command.py)                                          *)

\* the Command object Command.start creates: the child runs, the reader and
\* the waiter task are created by __post_init__
NewCommand(c) ==
    [config |-> c, exit_code |-> <<>>, was_killed |-> FALSE, sigterm |-> FALSE,
     sigkill |-> FALSE,
     stdout |-> Output(c.command), waiter |-> "waiting", mwait |-> "none",
     reader |-> "reading", stop_time |-> FALSE]

has_exited(cmd) == cmd.exit_code # <<>>

\* a read_output that takes a blank line for the end of the output
ReaderDoneAtBlankLine(cmd) ==
    has_exited(cmd) /\ (IF cmd.stdout = <<>> THEN TRUE ELSE Head(cmd.stdout) = <<"\n">>)

\* Command.read_output has ended: every line was read and the readline
\* after the child's exit returned b""
ReaderDone(cmd) == has_exited(cmd) /\ cmd.stdout = <<>>

\* a Command.wait that awaits neither the process nor the reader
WaitReadyAtOnce(cmd) == TRUE

\* a Command.wait that awaits the reader only, not the process
WaitReadyWithoutProcess(cmd) == cmd.stdout = <<>>

\* a Command.wait that does not await the reader
WaitReadyWithoutReader(cmd) == has_exited(cmd)

\* Command.wait can pass `await self.process.wait()` and `await self.reader`:
\* the reader task has ended, by returning or by raising
WaitReady(cmd) == has_exited(cmd) /\ (ReaderDone(cmd) \/ cmd.reader = "failed")

\* Command.wait: `await self.reader` raises what the reader task raised,
\* unless that is CancelledError
WaitRaises(cmd) == cmd.reader = "failed"

\* a terminate that does not look at has_exited
terminateWhateverState(cmd) == [cmd EXCEPT !.was_killed = TRUE, !.sigterm = TRUE]

\* a terminate that marks the Command but sends no signal
terminateWithoutSignal(cmd) ==
    IF has_exited(cmd) THEN cmd ELSE [cmd EXCEPT !.was_killed = TRUE]

\* Command.terminate, on the Command: was_killed and the SIGTERM sent to
\* the process group
terminate(cmd) ==
    IF has_exited(cmd) THEN cmd ELSE [cmd EXCEPT !.was_killed = TRUE, !.sigterm = TRUE]

\* Command.kill, on the Command: was_killed and the SIGKILL sent to the
\* process group
kill(cmd) ==
    IF has_exited(cmd) THEN cmd ELSE [cmd EXCEPT !.was_killed = TRUE, !.sigkill = TRUE]

\* Command.terminate on each Command of S, in list order
TerminateAll(cs, S) ==
    [i \in DOMAIN cs |-> IF i \in S THEN terminate(cs[i]) ELSE cs[i]]

RECURSIVE TerminatingMessages(_, _)
TerminatingMessages(cs, order) ==
    IF order = <<>> THEN <<>>
    ELSE (IF has_exited(cs[Head(order)]) THEN <<>>
          ELSE <<InternalMessage(<<"Terminating command", cs[Head(order)].config.command>>)>>)
         \o TerminatingMessages(cs, Tail(order))

ExitedMessage(cmd) ==
    InternalMessage(<<"Command exited with code", cmd.exit_code, cmd.config.command>>)

\* the child exits by itself
ProcExit(i) ==
    /\ ~has_exited(cmds[i])
    /\ ExitStatus(cmds[i].config.command) # <<>>
    /\ cmds' = [cmds EXCEPT ![i].exit_code = ExitStatus(cmds[i].config.command)]
    /\ UNCHANGED <<config, managers, events, messages, internal, run, exc, aexit, waitset, handler,
                   harg, watcher, wqueue, starts, inflight, stopped, nfile>>
    /\ UNCHANGED fvars
    /\ UNCHANGED dvars
    /\ UNCHANGED cvars
    /\ UNCHANGED rvars
    /\ UNCHANGED xvars
    /\ UNCHANGED tvars

\* the child's process group dies of the SIGTERM of _send_signal
ProcSignalled(i) ==
    /\ ~has_exited(cmds[i])
    /\ cmds[i].sigterm
    /\ ~IgnoresSIGTERM(cmds[i].config.command)
    /\ cmds' = [cmds EXCEPT ![i].exit_code = <<-SIGTERM>>]
    /\ UNCHANGED <<config, managers, events, messages, internal, run, exc, aexit, waitset, handler,
                   harg, watcher, wqueue, starts, inflight, stopped, nfile>>
    /\ UNCHANGED fvars
    /\ UNCHANGED dvars
    /\ UNCHANGED cvars
    /\ UNCHANGED rvars
    /\ UNCHANGED xvars
    /\ UNCHANGED tvars

\* Command.read_output: one readline that returns a line
ReadLine(i) ==
    /\ cmds[i].reader = "reading"
    /\ cmds[i].stdout # <<>>
    /\ Decodable(Head(cmds[i].stdout))
    /\ messages' = FanoutPut(messages,
                      CommandMessage(rstrip(Head(cmds[i].stdout)), cmds[i].config, i))
    /\ cmds' = [cmds EXCEPT ![i].stdout = Tail(cmds[i].stdout)]
    /\ UNCHANGED <<config, internal, managers, events, run, exc, aexit, waitset, handler,
                   harg, watcher, wqueue, starts, inflight, stopped, nfile>>
    /\ UNCHANGED fvars
    /\ UNCHANGED dvars
    /\ UNCHANGED cvars
    /\ UNCHANGED rvars
    /\ UNCHANGED xvars
    /\ UNCHANGED tvars

\* Command.read_output: line.decode("utf-8") raises UnicodeDecodeError and
\* the reader task ends with it
ReadFails(i) ==
    /\ cmds[i].reader = "reading"
    /\ cmds[i].stdout # <<>>
    /\ ~Decodable(Head(cmds[i].stdout))
    /\ cmds' = [cmds EXCEPT ![i].reader = "failed"]
    /\ UNCHANGED <<config, internal, managers, events, messages, run, exc, aexit, waitset,
                   handler, harg, watcher, wqueue, starts, inflight, stopped, nfile>>
    /\ UNCHANGED fvars
    /\ UNCHANGED dvars
    /\ UNCHANGED cvars
    /\ UNCHANGED rvars
    /\ UNCHANGED xvars
    /\ UNCHANGED tvars

\* Command.wait, as the task __post_init__ created
WaiterTask(i) ==
    /\ cmds[i].waiter = "waiting"
    /\ WaitReady(cmds[i])
    /\ IF WaitRaises(cmds[i])
       THEN /\ UNCHANGED events
            /\ cmds' = [cmds EXCEPT ![i].waiter = "raised", ![i].stop_time = TRUE]
       ELSE /\ events' = FanoutPut(events, Event(i, "Stopped"))
            /\ cmds' = [cmds EXCEPT ![i].waiter = "done", ![i].stop_time = TRUE]
    /\ UNCHANGED <<config, internal, managers, messages, run, exc, aexit, waitset, handler,
                   harg, watcher, wqueue, starts, inflight, stopped, nfile>>
    /\ UNCHANGED fvars
    /\ UNCHANGED dvars
    /\ UNCHANGED cvars
    /\ UNCHANGED rvars
    /\ UNCHANGED xvars
    /\ UNCHANGED tvars

\* Command.wait, as awaited by Monitor.wait's gather
WaitCall(i) ==
    /\ cmds[i].mwait = "waiting"
    /\ WaitReady(cmds[i])
    /\ IF WaitRaises(cmds[i])
       THEN /\ UNCHANGED events
            /\ cmds' = [cmds EXCEPT ![i].mwait = "raised", ![i].stop_time = TRUE]
       ELSE /\ events' = FanoutPut(events, Event(i, "Stopped"))
            /\ cmds' = [cmds EXCEPT ![i].mwait = "done", ![i].stop_time = TRUE]
    /\ UNCHANGED <<config, internal, managers, messages, run, exc, aexit, waitset, handler,
                   harg, watcher, wqueue, starts, inflight, stopped, nfile>>
    /\ UNCHANGED fvars
    /\ UNCHANGED dvars
    /\ UNCHANGED cvars
    /\ UNCHANGED rvars
    /\ UNCHANGED xvars
    /\ UNCHANGED tvars

----------------------------------------------------------------------------
(* Monitor (src/brood/monitor.py)                                          *)

\* Command.start, then start_command's self.managers.append(manager): the
\* "Starting command" message, the child, the Command, its Started event
StartCommand(c) ==
    /\ Len(cmds) < MaxCmds
    /\ internal' = PutInternal(internal, InternalMessage(<<"Starting command", c.command>>))
    /\ UNCHANGED messages
    /\ cmds' = Append(cmds, NewCommand(c))
    /\ events' = FanoutPut(events, Event(Len(cmds) + 1, "Started"))
    /\ managers' = managers \cup {Len(cmds) + 1}

InFlight(by) == {s \in inflight : s.by = by}

\* Monitor.start: one start_command of the gather completes; run goes on to
\* its wait(...) once all have
BootStart(s) ==
    /\ run = "start"
    /\ s \in InFlight("start")
    /\ StartCommand(s.config)
    /\ inflight' = inflight \ {s}
    /\ run' = IF InFlight("start") = {s} THEN "wait" ELSE "start"
    /\ UNCHANGED <<config, exc, aexit, waitset, handler, harg, watcher, wqueue, starts,
                   stopped, nfile>>
    /\ UNCHANGED fvars
    /\ UNCHANGED dvars
    /\ UNCHANGED cvars
    /\ UNCHANGED rvars
    /\ UNCHANGED xvars
    /\ UNCHANGED tvars

\* a failure-mode test that does not look at was_killed
ShouldKillOthersEvenIfKilled(failure_mode, cmd) ==
    /\ failure_mode = KILL_OTHERS
    /\ cmd.exit_code # <<0>>

\* the failure-mode test of handle_managers
ShouldKillOthers(failure_mode, cmd) ==
    /\ failure_mode = KILL_OTHERS
    /\ cmd.exit_code # <<0>>
    /\ ~cmd.was_killed

\* a handle_managers that re-starts After commands as well
ShouldRestartAfter(cmd) == cmd.config.starter.type \in {"restart", "after"}

\* a handle_managers that never re-starts
ShouldRestartNever(cmd) == FALSE

\* the restart test of handle_managers
ShouldRestart(cmd) ==
    /\ cmd.config.starter.type = "restart"
    /\ restart_on_exit(cmd.config.starter)

\* handle_managers: one event from process_events.get() to the next await
HandleEvent ==
    /\ run # "start"
    /\ handler = "idle"
    /\ events[2] # <<>>
    /\ LET event == Head(events[2])
           cmd == cmds[event.command]
       IN /\ events' = FanoutGet(events, 2)
          /\ IF event.type = "Stopped"
             THEN IF event.command \notin managers
                  THEN \* list.remove(x): x not in list
                       /\ handler' = "ValueError"
                       /\ UNCHANGED <<managers, internal, harg>>
                  ELSE /\ managers' = managers \ {event.command}
                       /\ internal' = PutInternal(internal, ExitedMessage(cmd))
                       /\ IF ShouldKillOthers(config.failure_mode, cmd)
                          THEN handler' = "KillOthers" /\ harg' = <<event.command>>
                          ELSE IF ShouldRestart(cmd)
                               THEN handler' = "delay" /\ harg' = <<cmd.config>>
                               ELSE UNCHANGED <<handler, harg>>
             ELSE UNCHANGED <<managers, internal, handler, harg>>
    /\ UNCHANGED <<config, cmds, messages, run, exc, aexit, waitset, watcher, wqueue, starts,
                   inflight, stopped, nfile>>
    /\ UNCHANGED fvars
    /\ UNCHANGED dvars
    /\ UNCHANGED cvars
    /\ UNCHANGED rvars
    /\ UNCHANGED xvars
    /\ UNCHANGED tvars

\* handle_managers: start_command(command_config, delay=True) completes
HandlerRestart ==
    /\ handler = "delay"
    /\ StartCommand(harg[1])
    /\ handler' = "idle"
    /\ harg' = <<>>
    /\ UNCHANGED <<config, run, exc, aexit, waitset, watcher, wqueue, starts, inflight,
                   stopped, nfile>>
    /\ UNCHANGED fvars
    /\ UNCHANGED dvars
    /\ UNCHANGED cvars
    /\ UNCHANGED rvars
    /\ UNCHANGED xvars
    /\ UNCHANGED tvars

\* handle_watchers: the configs it creates a FileWatcher for
WatchConfigs == {config.commands[k] : k \in {j \in DOMAIN config.commands :
                                                config.commands[j].starter.type = "watch"}}

\* a wait(...) that also returns when handle_watchers has no watcher to
\* serve
FirstExceptionOrNoWatcher ==
    handler \in {"KillOthers", "ValueError"} \/ WatchConfigs = {}

\* Monitor.run: wait(..., return_when=FIRST_EXCEPTION) returns: one of its
\* tasks has raised. handle_watchers does not end when there is no Watch
\* command, it awaits its empty queue in drain_queue
FirstException == handler \in {"KillOthers", "ValueError"}

\* Monitor.run: wait(..., return_when=FIRST_EXCEPTION) returns because
\* handle_managers raised; KillOthers is caught and reported, anything else
\* leaves run and enters __aexit__
RunDone ==
    /\ run = "wait"
    /\ FirstException
    /\ IF handler = "KillOthers"
       THEN /\ internal' = PutInternal(internal,
                   InternalMessage(<<"Killing other processes due to command failing with code",
                                     cmds[harg[1]].exit_code, cmds[harg[1]].config.command>>))
            /\ run' = "returned"
            /\ exc' = "None"
       ELSE /\ internal' = PutInternal(internal,
                   InternalMessage(<<"Shutting down due to:", handler>>))
            /\ run' = "raised"
            /\ exc' = handler
    /\ aexit' = "terminate"
    /\ UNCHANGED <<config, messages, cmds, managers, events, waitset, handler, harg, watcher, wqueue,
                   starts, inflight, stopped, nfile>>
    /\ UNCHANGED fvars
    /\ UNCHANGED dvars
    /\ UNCHANGED cvars
    /\ UNCHANGED rvars
    /\ xreason' = ExecutorReason(exc')
    /\ UNCHANGED xtasks
    /\ UNCHANGED tvars

\* Monitor.run is cancelled at its wait(...); the tasks wait() created go on
Cancel ==
    /\ run = "wait"
    /\ internal' = PutInternal(internal,
            InternalMessage(<<"Shutting down due to:", "keyboard interrupt">>))
    /\ run' = "raised"
    /\ exc' = "CancelledError"
    /\ aexit' = "terminate"
    /\ UNCHANGED <<config, messages, cmds, managers, events, waitset, handler, harg, watcher, wqueue,
                   starts, inflight, stopped, nfile>>
    /\ UNCHANGED fvars
    /\ UNCHANGED dvars
    /\ UNCHANGED cvars
    /\ UNCHANGED rvars
    /\ xreason' = ExecutorReason(exc')
    /\ UNCHANGED xtasks
    /\ UNCHANGED tvars

----------------------------------------------------------------------------
(* handle_watchers and the file-watch handler                              *)

\* StartCommand.on_modified for a file that is not ignored, while fewer
\* than n file events were delivered
FileEventWithin(c, n) ==
    /\ run # "start"
    /\ ~stopped
    /\ nfile < n
    /\ c \in WatchConfigs
    /\ wqueue' = Append(wqueue, c)
    /\ nfile' = nfile + 1
    /\ UNCHANGED <<config, cmds, managers, events, messages, internal, run, exc, aexit, waitset,
                   handler, harg, watcher, starts, inflight, stopped>>
    /\ UNCHANGED fvars
    /\ UNCHANGED dvars
    /\ UNCHANGED cvars
    /\ UNCHANGED rvars
    /\ UNCHANGED xvars
    /\ UNCHANGED tvars

FileEvent(c) == FileEventWithin(c, MaxFileEvents)

Range(q) == {q[k] : k \in DOMAIN q}

\* drain_queue(queue, buffer=1): items are taken until a get_nowait finds
\* the queue empty, then the buffer sleep begins
DrainTake ==
    /\ run # "start"
    /\ watcher \in {"idle", "buffer"}
    /\ wqueue # <<>>
    /\ starts' = starts \o wqueue
    /\ wqueue' = <<>>
    /\ watcher' = "buffer"
    /\ UNCHANGED <<config, cmds, managers, events, messages, internal, run, exc, aexit, waitset,
                   handler, harg, inflight, stopped, nfile>>
    /\ UNCHANGED fvars
    /\ UNCHANGED dvars
    /\ UNCHANGED cvars
    /\ UNCHANGED rvars
    /\ UNCHANGED xvars
    /\ UNCHANGED tvars

\* a handle_watchers that stops the Commands of every drained config
StopsWhateverAllowMultiple(cfgs) == {m \in managers : cmds[m].config \in cfgs}

\* the Commands handle_watchers collects in stops
Stops(cfgs) ==
    {m \in managers : /\ cmds[m].config \in cfgs
                      /\ cmds[m].config.starter.type = "watch"
                      /\ ~cmds[m].config.starter.allow_multiple}

\* the message handle_watchers puts for a config it is about to start
PathMessage(c) == InternalMessage(<<"Path was modified, starting command", c.command>>)

\* a handle_watchers that starts a command for every drained item
WatchStartsEveryItem(items) ==
    {[by |-> "watch", config |-> items[k], n |-> k] : k \in DOMAIN items}

\* the start_commands handle_watchers gathers: starts is a dict keyed by
\* config, one start per config whatever the number of its items
WatchStarts(items) == {[by |-> "watch", config |-> c, n |-> 0] : c \in Range(items)}

\* handle_watchers: the buffer sleep ends with the queue empty; the stops
\* are terminated, the messages put and the start_commands begun
WatchRestart ==
    /\ watcher = "buffer"
    /\ wqueue = <<>>
    /\ cmds' = TerminateAll(cmds, Stops(Range(starts)))
    /\ internal' = PutAll(internal, TerminatingMessages(cmds, InOrder(Stops(Range(starts)))))
                       (+) SetToBag({PathMessage(c) : c \in Range(starts)})
    /\ inflight' = inflight \cup WatchStarts(starts)
    /\ starts' = <<>>
    /\ watcher' = "starting"
    /\ UNCHANGED <<config, messages, managers, events, run, exc, aexit, waitset, handler, harg,
                   wqueue, stopped, nfile>>
    /\ UNCHANGED fvars
    /\ UNCHANGED dvars
    /\ UNCHANGED cvars
    /\ UNCHANGED rvars
    /\ UNCHANGED xvars
    /\ UNCHANGED tvars

\* handle_watchers: one start_command of the gather completes
WatchStart(s) ==
    /\ watcher = "starting"
    /\ s \in InFlight("watch")
    /\ StartCommand(s.config)
    /\ inflight' = inflight \ {s}
    /\ watcher' = IF InFlight("watch") = {s} THEN "idle" ELSE "starting"
    /\ UNCHANGED <<config, run, exc, aexit, waitset, handler, harg, wqueue, starts,
                   stopped, nfile>>
    /\ UNCHANGED fvars
    /\ UNCHANGED dvars
    /\ UNCHANGED cvars
    /\ UNCHANGED rvars
    /\ UNCHANGED xvars
    /\ UNCHANGED tvars

----------------------------------------------------------------------------
(* Monitor.__aexit__: terminate, wait, shutdown, wait                      *)

\* Monitor.terminate
AexitTerminate ==
    /\ aexit = "terminate"
    /\ cmds' = TerminateAll(cmds, managers)
    /\ internal' = PutAll(internal, TerminatingMessages(cmds, InOrder(managers)))
    /\ stopped' = TRUE
    /\ aexit' = "wait1"
    /\ UNCHANGED <<config, messages, managers, events, run, exc, waitset, handler, harg, watcher,
                   wqueue, starts, inflight, nfile>>
    /\ UNCHANGED fvars
    /\ UNCHANGED dvars
    /\ UNCHANGED cvars
    /\ UNCHANGED rvars
    /\ UNCHANGED xvars
    /\ UNCHANGED tvars

\* Monitor.wait: gather(*(manager.wait() for manager in self.managers))
AexitWaitBegin ==
    /\ aexit \in {"wait1", "wait2"}
    /\ waitset' = managers
    /\ cmds' = [i \in DOMAIN cmds |->
                  IF i \in managers THEN [cmds[i] EXCEPT !.mwait = "waiting"] ELSE cmds[i]]
    /\ aexit' = IF aexit = "wait1" THEN "waiting1" ELSE "waiting2"
    /\ UNCHANGED <<config, managers, events, messages, internal, run, exc, handler, harg, watcher,
                   wqueue, starts, inflight, stopped, nfile>>
    /\ UNCHANGED fvars
    /\ UNCHANGED dvars
    /\ UNCHANGED cvars
    /\ UNCHANGED rvars
    /\ UNCHANGED xvars
    /\ UNCHANGED tvars

\* the Commands Monitor.wait's loop removes before self.managers.remove
\* raises (all of them when it does not raise)
Removed(ws, ms) ==
    IF ws \subseteq ms THEN ws ELSE {i \in ws : i < Min(ws \ ms)}

RECURSIVE ExitedMessages(_, _)
ExitedMessages(cs, order) ==
    IF order = <<>> THEN <<>>
    ELSE <<ExitedMessage(cs[Head(order)])>> \o ExitedMessages(cs, Tail(order))

\* Monitor.wait: the gather is done; each manager is removed and reported
AexitWaitEnd ==
    /\ aexit \in {"waiting1", "waiting2"}
    /\ \A i \in waitset : cmds[i].mwait = "done"
    /\ managers' = managers \ Removed(waitset, managers)
    /\ internal' = PutAll(internal, ExitedMessages(cmds, InOrder(Removed(waitset, managers))))
    /\ waitset' = {}
    /\ aexit' = IF ~(waitset \subseteq managers) THEN "ValueError"
                ELSE IF aexit = "waiting1" THEN "shutdown" ELSE "returned"
    /\ UNCHANGED <<config, messages, cmds, events, run, exc, handler, harg, watcher, wqueue, starts,
                   inflight, stopped, nfile>>
    /\ UNCHANGED fvars
    /\ UNCHANGED dvars
    /\ UNCHANGED cvars
    /\ UNCHANGED rvars
    /\ UNCHANGED xvars
    /\ UNCHANGED tvars

\* Monitor.shutdown: the shutdown commands
shutdown_commands ==
    {shutdown_config(config.commands[k]) :
        k \in {j \in DOMAIN config.commands : config.commands[j].shutdown # ""}}

\* Monitor.shutdown: gather(*(self.start_command(command) ...)) begins
AexitShutdown ==
    /\ aexit = "shutdown"
    /\ inflight' = inflight \cup {[by |-> "shutdown", config |-> c, n |-> 0] : c \in shutdown_commands}
    /\ aexit' = IF shutdown_commands = {} THEN "wait2" ELSE "starting"
    /\ UNCHANGED <<config, cmds, managers, events, messages, internal, run, exc, waitset, handler,
                   harg, watcher, wqueue, starts, stopped, nfile>>
    /\ UNCHANGED fvars
    /\ UNCHANGED dvars
    /\ UNCHANGED cvars
    /\ UNCHANGED rvars
    /\ UNCHANGED xvars
    /\ UNCHANGED tvars

\* Monitor.shutdown: one start_command of the gather completes
ShutdownStart(s) ==
    /\ aexit = "starting"
    /\ s \in InFlight("shutdown")
    /\ StartCommand(s.config)
    /\ inflight' = inflight \ {s}
    /\ aexit' = IF InFlight("shutdown") = {s} THEN "wait2" ELSE "starting"
    /\ UNCHANGED <<config, run, exc, waitset, handler, harg, watcher, wqueue, starts,
                   stopped, nfile>>
    /\ UNCHANGED fvars
    /\ UNCHANGED dvars
    /\ UNCHANGED cvars
    /\ UNCHANGED rvars
    /\ UNCHANGED xvars
    /\ UNCHANGED tvars

----------------------------------------------------------------------------
(* The configurations the runs are given                                   *)

Commands ==
    { << CommandConfig("a", "sleep 1000", "echo bye", OnceConfig),
         CommandConfig("b", "exit 1", "", OnceConfig) >>,
      << CommandConfig("a", "echo hi", "", RestartConfig) >>,
      << CommandConfig("a", "exit 0", "", OnceConfig),
         CommandConfig("c", "echo hi", "", AfterConfig({"a"})) >>,
      << CommandConfig("w", "sleep 1000", "", WatchConfig(FALSE)) >>,
      << CommandConfig("w", "sleep 1000", "", WatchConfig(TRUE)) >>,
      << CommandConfig("c", "echo hi", "", AfterConfig({})) >>,
      << CommandConfig("r", "exit 1", "echo bye", RestartConfig) >> }

BroodConfigs == [failure_mode : {CONTINUE, KILL_OTHERS}, commands : Commands]

\* Monitor.create and the beginning of Monitor.run: the renderer's consumers
\* and the Monitor's events consumer exist before any command starts
MonitorInit(c) ==
    /\ config = c
    /\ cmds = <<>>
    /\ managers = {}
    /\ events = FanoutConsumer(FanoutConsumer(<<>>))
    /\ messages = FanoutConsumer(<<>>)
    /\ internal = EmptyBag
    /\ run = "start"
    /\ exc = "None"
    /\ aexit = "none"
    /\ waitset = {}
    /\ handler = "idle"
    /\ harg = <<>>
    /\ watcher = "idle"
    /\ wqueue = <<>>
    /\ starts = <<>>
    /\ inflight = {[by |-> "start", config |-> c.commands[k], n |-> 0] : k \in DOMAIN c.commands}
    /\ stopped = FALSE
    /\ nfile = 0

\* Fanout(): no consumer yet
FanoutInit ==
    /\ fq = <<>>
    /\ fput = <<>>
    /\ fjoin = <<>>
    /\ fgot = <<>>

\* nothing but the Monitor has called a Command yet
CallerInit == calls = <<>>

\* BroodConfig.load and save have not been called; the path has extension
\* ext and file is what is there
\* Renderer(verbosity=...): nothing on its queue yet
RendererInit(verbosity) ==
    /\ rverbosity = verbosity
    /\ rmessages = <<>>
    /\ rgot = <<>>
    /\ rshown = <<>>

ConfigFileInit(ext, file) ==
    /\ cext = ext
    /\ cfile = file
    /\ clog = <<>>

\* drain_queue(queue, buffer=b) has been called on an empty queue
DrainInit(b) ==
    /\ dqueue = <<>>
    /\ dput = <<>>
    /\ dbuffer = b
    /\ dtaken = <<>>
    /\ dpc = "get"

\* main.run has not loaded the configuration yet
ExecutorInit ==
    /\ xphase = "load"
    /\ xexc = "None"
    /\ xstop = "none"
    /\ xdrain = "none"
    /\ xq = 0
    /\ xpub = 0
    /\ xcode = <<>>
    /\ xreason = <<>>

Init == (\E c \in BroodConfigs : MonitorInit(c)) /\ FanoutInit /\ CallerInit /\ ExecutorInit /\ DrainInit(<<>>)
    /\ ConfigFileInit("", <<>>)
    /\ RendererInit(INFO)

Next ==
    \/ \E s \in inflight : BootStart(s)
    \/ \E i \in DOMAIN cmds : ProcExit(i)
    \/ \E i \in DOMAIN cmds : ProcSignalled(i)
    \/ \E i \in DOMAIN cmds : ReadLine(i)
    \/ \E i \in DOMAIN cmds : WaiterTask(i)
    \/ \E i \in DOMAIN cmds : WaitCall(i)
    \/ HandleEvent
    \/ HandlerRestart
    \/ RunDone
    \/ Cancel
    \/ \E c \in WatchConfigs : FileEvent(c)
    \/ DrainTake
    \/ WatchRestart
    \/ \E s \in inflight : WatchStart(s)
    \/ AexitTerminate
    \/ AexitWaitBegin
    \/ AexitWaitEnd
    \/ AexitShutdown
    \/ \E s \in inflight : ShutdownStart(s)

Spec == Init /\ [][Next]_vars

\* the event loop runs every task that can go on, sleeps end, a child that
\* exits by itself does and a child that was sent SIGTERM dies of it; the run
\* may never be cancelled and files may never change
FairSpec ==
    /\ Spec
    /\ WF_vars(\E s \in inflight : BootStart(s))
    /\ WF_vars(\E i \in DOMAIN cmds : ProcExit(i))
    /\ WF_vars(\E i \in DOMAIN cmds : ProcSignalled(i))
    /\ WF_vars(\E i \in DOMAIN cmds : ReadLine(i))
    /\ WF_vars(\E i \in DOMAIN cmds : WaiterTask(i))
    /\ WF_vars(\E i \in DOMAIN cmds : WaitCall(i))
    /\ WF_vars(HandleEvent)
    /\ WF_vars(HandlerRestart)
    /\ WF_vars(RunDone)
    /\ WF_vars(DrainTake)
    /\ WF_vars(WatchRestart)
    /\ WF_vars(\E s \in inflight : WatchStart(s))
    /\ WF_vars(AexitTerminate)
    /\ WF_vars(AexitWaitBegin)
    /\ WF_vars(AexitWaitEnd)
    /\ WF_vars(AexitShutdown)
    /\ WF_vars(\E s \in inflight : ShutdownStart(s))

----------------------------------------------------------------------------
(* A Fanout used on its own, as in src/tests/test_fanout.py: consumers     *)
(* join at any time, items are put, each consumer dequeues at its own pace *)

Items == {0, 1}

\* fq.consumer()
FConsumer ==
    /\ Len(fq) < MaxConsumers
    /\ fq' = FanoutConsumer(fq)
    /\ fjoin' = Append(fjoin, Len(fput))
    /\ fgot' = Append(fgot, <<>>)
    /\ UNCHANGED fput
    /\ UNCHANGED mvars
    /\ UNCHANGED dvars
    /\ UNCHANGED cvars
    /\ UNCHANGED rvars
    /\ UNCHANGED xvars
    /\ UNCHANGED tvars

\* await fq.put(item)
FPut(item) ==
    /\ Len(fput) < MaxPuts
    /\ fq' = FanoutPut(fq, item)
    /\ fput' = Append(fput, item)
    /\ UNCHANGED <<fjoin, fgot>>
    /\ UNCHANGED mvars
    /\ UNCHANGED dvars
    /\ UNCHANGED cvars
    /\ UNCHANGED rvars
    /\ UNCHANGED xvars
    /\ UNCHANGED tvars

\* a consumer takes the next item of its queue
FGet(i) ==
    /\ fq[i] # <<>>
    /\ fgot' = [fgot EXCEPT ![i] = Append(fgot[i], Head(fq[i]))]
    /\ fq' = FanoutGet(fq, i)
    /\ UNCHANGED <<fput, fjoin>>
    /\ UNCHANGED mvars
    /\ UNCHANGED dvars
    /\ UNCHANGED cvars
    /\ UNCHANGED rvars
    /\ UNCHANGED xvars
    /\ UNCHANGED tvars

FanoutNext ==
    \/ FConsumer
    \/ \E item \in Items : FPut(item)
    \/ \E i \in DOMAIN fq : FGet(i)

\* no Monitor runs beside the Fanout under test
InitFanout ==
    MonitorInit([failure_mode |-> CONTINUE, commands |-> <<>>]) /\ FanoutInit /\ CallerInit /\ ExecutorInit /\ DrainInit(<<>>)
    /\ ConfigFileInit("", <<>>)
    /\ RendererInit(INFO)

SpecFanout == InitFanout /\ [][FanoutNext]_vars

----------------------------------------------------------------------------
(* The Monitor with watched commands only and several file events, left    *)
(* running: handle_watchers' windows                                       *)

WatchBroodConfigs ==
    {c \in BroodConfigs : \A k \in DOMAIN c.commands : c.commands[k].starter.type = "watch"}

InitWatch == (\E c \in WatchBroodConfigs : MonitorInit(c)) /\ FanoutInit /\ CallerInit /\ ExecutorInit /\ DrainInit(<<>>)
    /\ ConfigFileInit("", <<>>)
    /\ RendererInit(INFO)

NextWatch ==
    \/ \E s \in inflight : BootStart(s)
    \/ \E i \in DOMAIN cmds : ProcSignalled(i)
    \/ \E i \in DOMAIN cmds : WaiterTask(i)
    \/ HandleEvent
    \/ \E c \in WatchConfigs : FileEventWithin(c, MaxBurst)
    \/ DrainTake
    \/ WatchRestart
    \/ \E s \in inflight : WatchStart(s)

SpecWatch == InitWatch /\ [][NextWatch]_vars

----------------------------------------------------------------------------
(* The file-watch handler and the events the observer dispatches to it     *)

\* the paths an event can name: inside a git working tree or not, and the
\* .gitignore at the root of that tree absent, matching the path or not
\* matching it
Paths ==
    {p \in [repo : BOOLEAN, gitignore : {"absent", "matches", "passes"}] :
        ~p.repo => p.gitignore = "absent"}

\* watchdog's FileSystemEvent
FileSystemEvents ==
    [event_type : {"modified", "created", "deleted"}, is_directory : BOOLEAN, src_path : Paths]

\* get_git_root: git.Repo(path, search_parent_directories=True) raises
\* InvalidGitRepositoryError outside a working tree
get_git_root_raises(path) == ~path.repo

\* get_ignorer: parse_gitignore opens the file and raises when the root has
\* no .gitignore
get_ignorer_raises(path) == path.gitignore = "absent"

\* StartCommand.on_modified reaches its put_nowait
on_modified_puts(event) ==
    /\ ~event.is_directory
    /\ ~get_git_root_raises(event.src_path)
    /\ ~get_ignorer_raises(event.src_path)
    /\ event.src_path.gitignore # "matches"

\* FileSystemEventHandler.dispatch: the event goes to on_any_event and to the
\* method of its type; StartCommand overrides on_modified only
Enqueues(event) == event.event_type = "modified" /\ on_modified_puts(event)

\* the observer dispatches one event to the handler of a Watch command
Dispatch(c, event) ==
    /\ run # "start"
    /\ ~stopped
    /\ nfile < MaxBurst
    /\ c \in WatchConfigs
    /\ wqueue' = IF Enqueues(event) THEN Append(wqueue, c) ELSE wqueue
    /\ nfile' = nfile + 1
    /\ UNCHANGED <<config, cmds, managers, events, messages, internal, run, exc, aexit, waitset,
                   handler, harg, watcher, starts, inflight, stopped>>
    /\ UNCHANGED fvars
    /\ UNCHANGED dvars
    /\ UNCHANGED cvars
    /\ UNCHANGED rvars
    /\ UNCHANGED xvars
    /\ UNCHANGED tvars

NextDispatch ==
    \/ \E s \in inflight : BootStart(s)
    \/ \E i \in DOMAIN cmds : ProcSignalled(i)
    \/ \E i \in DOMAIN cmds : WaiterTask(i)
    \/ HandleEvent
    \/ \E c \in WatchConfigs : \E event \in FileSystemEvents : Dispatch(c, event)
    \/ DrainTake
    \/ WatchRestart
    \/ \E s \in inflight : WatchStart(s)

SpecDispatch == InitWatch /\ [][NextDispatch]_vars

----------------------------------------------------------------------------
(* Watch commands whose observer fails to start                            *)

\* handle_watchers: watcher.start() raises (observer.schedule or
\* observer.start fails, as OSError) before the first window; nothing in
\* handle_watchers catches it, the task ends with it, and Monitor.run's
\* wait(..., return_when=FIRST_EXCEPTION) returns: d.result() re-raises it,
\* it leaves run and enters __aexit__
WatcherStartFails ==
    /\ run = "wait"
    /\ watcher = "idle"
    /\ nfile = 0
    /\ WatchConfigs # {}
    /\ watcher' = "OSError"
    /\ internal' = PutInternal(internal,
            InternalMessage(<<"Shutting down due to:", "OSError">>))
    /\ run' = "raised"
    /\ exc' = "OSError"
    /\ aexit' = "terminate"
    /\ UNCHANGED <<config, messages, cmds, managers, events, waitset, handler, harg, wqueue,
                   starts, inflight, stopped, nfile>>
    /\ UNCHANGED fvars
    /\ UNCHANGED dvars
    /\ UNCHANGED cvars
    /\ UNCHANGED rvars
    /\ xreason' = ExecutorReason(exc')
    /\ UNCHANGED xtasks
    /\ UNCHANGED tvars

NextWatcherFails == NextWatch \/ WatcherStartFails

SpecWatcherFails == InitWatch /\ [][NextWatcherFails]_vars

----------------------------------------------------------------------------
(* One Command and a caller that terminates or kills it at any time, as in *)
(* src/tests/test_command_manager.py                                       *)

\* the once_config fixture with the commands the tests are parametrized by
OnceConfigs ==
    {[failure_mode |-> CONTINUE,
      commands |-> <<CommandConfig("test", command, "", OnceConfig)>>] :
        command \in {"sleep 1000", "echo hi", "exit 1"}}

\* the child's process group dies of the SIGKILL of _send_signal
ProcKilled(i) ==
    /\ ~has_exited(cmds[i])
    /\ cmds[i].sigkill
    /\ cmds' = [cmds EXCEPT ![i].exit_code = <<-SIGKILL>>]
    /\ UNCHANGED <<config, managers, events, messages, internal, run, exc, aexit, waitset, handler,
                   harg, watcher, wqueue, starts, inflight, stopped, nfile>>
    /\ UNCHANGED fvars
    /\ UNCHANGED dvars
    /\ UNCHANGED cvars
    /\ UNCHANGED rvars
    /\ UNCHANGED xvars
    /\ UNCHANGED tvars

\* await command.terminate()
CallTerminate(i) ==
    /\ Len(calls) < MaxCalls
    /\ calls' = Append(calls, <<"terminate", i>>)
    /\ cmds' = [cmds EXCEPT ![i] = terminate(cmds[i])]
    /\ internal' = PutAll(internal, TerminatingMessages(cmds, <<i>>))
    /\ UNCHANGED <<config, managers, events, messages, run, exc, aexit, waitset, handler,
                   harg, watcher, wqueue, starts, inflight, stopped, nfile>>
    /\ UNCHANGED fvars
    /\ UNCHANGED dvars
    /\ UNCHANGED cvars
    /\ UNCHANGED rvars
    /\ UNCHANGED xvars

\* await command.kill()
CallKill(i) ==
    /\ Len(calls) < MaxCalls
    /\ calls' = Append(calls, <<"kill", i>>)
    /\ cmds' = [cmds EXCEPT ![i] = kill(cmds[i])]
    /\ internal' = IF has_exited(cmds[i]) THEN internal
                   ELSE PutInternal(internal,
                            InternalMessage(<<"Killing command", cmds[i].config.command>>))
    /\ UNCHANGED <<config, managers, events, messages, run, exc, aexit, waitset, handler,
                   harg, watcher, wqueue, starts, inflight, stopped, nfile>>
    /\ UNCHANGED fvars
    /\ UNCHANGED dvars
    /\ UNCHANGED cvars
    /\ UNCHANGED rvars
    /\ UNCHANGED xvars

InitCommand == (\E c \in OnceConfigs : MonitorInit(c)) /\ FanoutInit /\ CallerInit /\ ExecutorInit /\ DrainInit(<<>>)
    /\ ConfigFileInit("", <<>>)
    /\ RendererInit(INFO)

NextCommand ==
    \/ \E s \in inflight : BootStart(s)
    \/ \E i \in DOMAIN cmds : ProcExit(i)
    \/ \E i \in DOMAIN cmds : ProcSignalled(i)
    \/ \E i \in DOMAIN cmds : ProcKilled(i)
    \/ \E i \in DOMAIN cmds : ReadLine(i)
    \/ \E i \in DOMAIN cmds : WaiterTask(i)
    \/ \E i \in DOMAIN cmds : CallTerminate(i)
    \/ \E i \in DOMAIN cmds : CallKill(i)

SpecCommand == InitCommand /\ [][NextCommand]_vars

\* a signalled process group dies, the reader reads what the pipe holds and
\* the event loop runs the waiter task
FairSpecCommand ==
    /\ SpecCommand
    /\ WF_vars(\E i \in DOMAIN cmds : ProcSignalled(i))
    /\ WF_vars(\E i \in DOMAIN cmds : ProcKilled(i))
    /\ WF_vars(\E i \in DOMAIN cmds : ReadLine(i))
    /\ WF_vars(\E i \in DOMAIN cmds : WaiterTask(i))

----------------------------------------------------------------------------
(* The Monitor whose __aexit__ is awaited a second time after it returned  *)

\* await monitor.__aexit__(None, None, None), once more
AexitAgain ==
    /\ aexit = "returned"
    /\ \A k \in DOMAIN calls : calls[k][1] # "__aexit__"
    /\ calls' = Append(calls, <<"__aexit__", 0>>)
    /\ aexit' = "terminate"
    /\ UNCHANGED <<config, cmds, managers, events, messages, internal, run, exc, waitset, handler,
                   harg, watcher, wqueue, starts, inflight, stopped, nfile>>
    /\ UNCHANGED fvars
    /\ UNCHANGED dvars
    /\ UNCHANGED cvars
    /\ UNCHANGED rvars
    /\ UNCHANGED xvars

NextTwice == Next \/ AexitAgain

SpecTwice == Init /\ [][NextTwice]_vars

----------------------------------------------------------------------------
(* main.run, execute and the Executor (src/brood/main.py,                  *)
(* src/brood/executor.py): the configuration is loaded, Executor.run runs  *)
(* until an exception leaves it, Executor.__aexit__ stops the Monitor      *)
(* while it drains the renderer, unmounts the renderer and returns.        *)
(* Monitor.stop is not part of the sources: it is a task that puts         *)
(* messages and then ends.                                                 *)

\* what ends Executor.run: the cancellation of execute, KillOthers out of
\* Monitor.run, any other exception of one of its three tasks
RunExceptions == {"CancelledError", "KillOthers", "Exception"}

\* an Executor.__aexit__ that returns None
ExecutorAexitReturnsNone == FALSE

\* the value Executor.__aexit__ returns
ExecutorAexitReturns == TRUE

\* the exit code of main.run when exception e reaches it out of
\* asyncio.run (suppressed: the async with swallowed it); a cancellation
\* surfaces as KeyboardInterrupt, which main.run turns into Exit(code=0)
ExitCode(e, suppressed) ==
    IF suppressed \/ e \in {"None", "CancelledError"} THEN 0 ELSE 1

\* BroodConfig.load
Load ==
    /\ xphase = "load"
    /\ \/ xphase' = "run" /\ UNCHANGED <<xexc, xcode>>
       \/ xphase' = "exited" /\ xexc' = "UnknownFormat"
                             /\ xcode' = <<ExitCode("UnknownFormat", FALSE)>>
    /\ UNCHANGED <<xstop, xdrain, xq, xpub>>
    /\ UNCHANGED xreason
    /\ UNCHANGED <<mvars, fvars, tvars, dvars, cvars, rvars>>

\* Executor.run raises e; Executor.__aexit__ puts its message and creates
\* the stop_monitor and drain_renderer tasks
RunEnds(e) ==
    /\ xphase = "run"
    /\ xexc' = e
    /\ xq' = xq + 1
    /\ xstop' = "running"
    /\ xdrain' = "running"
    /\ xphase' = "aexit"
    /\ UNCHANGED <<xpub, xcode>>
    /\ xreason' = ExecutorReason(e)
    /\ UNCHANGED <<mvars, fvars, tvars, dvars, cvars, rvars>>

\* Monitor.stop puts a message
StopPublish ==
    /\ xstop = "running"
    /\ xpub < MaxStopMessages
    /\ xq' = xq + 1
    /\ xpub' = xpub + 1
    /\ UNCHANGED <<xphase, xexc, xstop, xdrain, xcode>>
    /\ UNCHANGED xreason
    /\ UNCHANGED <<mvars, fvars, tvars, dvars, cvars, rvars>>

\* Monitor.stop returns or raises
StopEnds(result) ==
    /\ xstop = "running"
    /\ xstop' = result
    /\ UNCHANGED <<xphase, xexc, xdrain, xq, xpub, xcode>>
    /\ UNCHANGED xreason
    /\ UNCHANGED <<mvars, fvars, tvars, dvars, cvars, rvars>>

\* Renderer.handle_messages(drain=True): takes messages until the queue is
\* empty, then returns; no handler of a message suspends
DrainMessages ==
    /\ xdrain = "running"
    /\ xq' = 0
    /\ xdrain' = "checked"
    /\ UNCHANGED <<xphase, xexc, xstop, xpub, xcode>>
    /\ UNCHANGED xreason
    /\ UNCHANGED <<mvars, fvars, tvars, dvars, cvars, rvars>>

\* Renderer.run(drain=True): its wait(..., ALL_COMPLETED) returns
DrainEnds ==
    /\ xdrain = "checked"
    /\ xdrain' = "done"
    /\ UNCHANGED <<xphase, xexc, xstop, xq, xpub, xcode>>
    /\ UNCHANGED xreason
    /\ UNCHANGED <<mvars, fvars, tvars, dvars, cvars, rvars>>

\* Executor.__aexit__: wait((stop_monitor, drain_renderer), FIRST_COMPLETED)
\* returns; with stop_monitor done the loop goes on to await drain_renderer,
\* otherwise a new drain_renderer task is created
ExecutorWake ==
    /\ xphase = "aexit"
    /\ xstop \in {"done", "raised"} \/ xdrain = "done"
    /\ IF xstop \in {"done", "raised"}
       THEN xphase' = "final" /\ UNCHANGED xdrain
       ELSE xdrain' = "running" /\ UNCHANGED xphase
    /\ UNCHANGED <<xexc, xstop, xq, xpub, xcode>>
    /\ UNCHANGED xreason
    /\ UNCHANGED <<mvars, fvars, tvars, dvars, cvars, rvars>>

\* Executor.__aexit__: await drain_renderer is over; renderer.unmount()
ExecutorUnmount ==
    /\ xphase = "final"
    /\ xdrain = "done"
    /\ xphase' = "unmounted"
    /\ UNCHANGED <<xexc, xstop, xdrain, xq, xpub, xcode>>
    /\ UNCHANGED xreason
    /\ UNCHANGED <<mvars, fvars, tvars, dvars, cvars, rvars>>

\* Executor.__aexit__ returns; execute, asyncio.run and main.run end
ExecutorExit ==
    /\ xphase = "unmounted"
    /\ xphase' = "exited"
    /\ xcode' = <<ExitCode(xexc, ExecutorAexitReturns)>>
    /\ UNCHANGED <<xexc, xstop, xdrain, xq, xpub>>
    /\ UNCHANGED xreason
    /\ UNCHANGED <<mvars, fvars, tvars, dvars, cvars, rvars>>

InitExecutor ==
    /\ MonitorInit([failure_mode |-> CONTINUE, commands |-> <<>>])
    /\ FanoutInit /\ CallerInit /\ ExecutorInit /\ DrainInit(<<>>)
    /\ ConfigFileInit("", <<>>)
    /\ RendererInit(INFO)

NextExecutor ==
    \/ Load
    \/ \E e \in RunExceptions : RunEnds(e)
    \/ StopPublish
    \/ \E result \in {"done", "raised"} : StopEnds(result)
    \/ DrainMessages
    \/ DrainEnds
    \/ ExecutorWake
    \/ ExecutorUnmount
    \/ ExecutorExit

SpecExecutor == InitExecutor /\ [][NextExecutor]_vars

----------------------------------------------------------------------------
(* The Monitor with a task of Monitor.run that fails: handle_watchers,     *)
(* renderer.mount or renderer.run raises an exception                      *)

\* Monitor.run: wait(..., return_when=FIRST_EXCEPTION) returns because one of
\* its tasks raised an exception that is not KillOthers; d.result() re-raises
\* it, it leaves run and enters the __aexit__ of the Monitor and the Executor
TaskRaises ==
    /\ run = "wait"
    /\ internal' = PutInternal(internal,
            InternalMessage(<<"Shutting down due to:", "Exception">>))
    /\ run' = "raised"
    /\ exc' = "Exception"
    /\ aexit' = "terminate"
    /\ UNCHANGED <<config, messages, cmds, managers, events, waitset, handler, harg, watcher, wqueue,
                   starts, inflight, stopped, nfile>>
    /\ UNCHANGED fvars
    /\ UNCHANGED dvars
    /\ UNCHANGED cvars
    /\ UNCHANGED rvars
    /\ xreason' = ExecutorReason(exc')
    /\ UNCHANGED xtasks
    /\ UNCHANGED tvars

NextReason == Next \/ TaskRaises

SpecReason == Init /\ [][NextReason]_vars

----------------------------------------------------------------------------
(* The Monitor with a command that ignores SIGTERM                         *)

GraceCommands ==
    { << CommandConfig("a", "trap '' TERM; sleep 1000", "", OnceConfig),
         CommandConfig("b", "exit 1", "", OnceConfig) >>,
      << CommandConfig("a", "sleep 1000", "echo bye", OnceConfig),
         CommandConfig("b", "exit 1", "", OnceConfig) >> }

GraceBroodConfigs == [failure_mode : {CONTINUE, KILL_OTHERS}, commands : GraceCommands]

InitGrace ==
    (\E c \in GraceBroodConfigs : MonitorInit(c)) /\ FanoutInit /\ CallerInit /\ ExecutorInit /\ DrainInit(<<>>)
    /\ ConfigFileInit("", <<>>)
    /\ RendererInit(INFO)

NextGrace ==
    \/ \E s \in inflight : BootStart(s)
    \/ \E i \in DOMAIN cmds : ProcExit(i)
    \/ \E i \in DOMAIN cmds : ProcSignalled(i)
    \/ \E i \in DOMAIN cmds : ReadLine(i)
    \/ \E i \in DOMAIN cmds : WaiterTask(i)
    \/ \E i \in DOMAIN cmds : WaitCall(i)
    \/ HandleEvent
    \/ RunDone
    \/ Cancel
    \/ AexitTerminate
    \/ AexitWaitBegin
    \/ AexitWaitEnd
    \/ AexitShutdown
    \/ \E s \in inflight : ShutdownStart(s)

SpecGrace == InitGrace /\ [][NextGrace]_vars

\* the event loop runs every task that can go on, a child that exits by
\* itself does, a signalled child that does not ignore the signal dies; the
\* run may never be cancelled
FairSpecGrace ==
    /\ SpecGrace
    /\ WF_vars(\E s \in inflight : BootStart(s))
    /\ WF_vars(\E i \in DOMAIN cmds : ProcExit(i))
    /\ WF_vars(\E i \in DOMAIN cmds : ProcSignalled(i))
    /\ WF_vars(\E i \in DOMAIN cmds : ReadLine(i))
    /\ WF_vars(\E i \in DOMAIN cmds : WaiterTask(i))
    /\ WF_vars(\E i \in DOMAIN cmds : WaitCall(i))
    /\ WF_vars(HandleEvent)
    /\ WF_vars(RunDone)
    /\ WF_vars(AexitTerminate)
    /\ WF_vars(AexitWaitBegin)
    /\ WF_vars(AexitWaitEnd)
    /\ WF_vars(AexitShutdown)
    /\ WF_vars(\E s \in inflight : ShutdownStart(s))

----------------------------------------------------------------------------
(* Two commands that write lines at the same time, as in                   *)
(* test_command_output_captured_as_command_message                         *)

OutputCommands ==
    { << CommandConfig("x", "echo 'hi '; echo bye 1>&2", "", OnceConfig),
         CommandConfig("y", "echo hi", "", OnceConfig) >>,
      << CommandConfig("y", "echo hi", "", OnceConfig),
         CommandConfig("x", "echo 'hi '; echo bye 1>&2", "", OnceConfig) >> }

OutputBroodConfigs == [failure_mode : {CONTINUE, KILL_OTHERS}, commands : OutputCommands]

InitOutput ==
    (\E c \in OutputBroodConfigs : MonitorInit(c)) /\ FanoutInit /\ CallerInit /\ ExecutorInit /\ DrainInit(<<>>)
    /\ ConfigFileInit("", <<>>)
    /\ RendererInit(INFO)

NextOutput ==
    \/ \E s \in inflight : BootStart(s)
    \/ \E i \in DOMAIN cmds : ProcExit(i)
    \/ \E i \in DOMAIN cmds : ReadLine(i)
    \/ \E i \in DOMAIN cmds : WaiterTask(i)
    \/ HandleEvent

SpecOutput == InitOutput /\ [][NextOutput]_vars

----------------------------------------------------------------------------
(* A command that writes a blank line between two others                   *)

BlankCommands ==
    { << CommandConfig("x", "echo hi; echo; echo bye", "", OnceConfig),
         CommandConfig("y", "echo hi", "", OnceConfig) >>,
      << CommandConfig("y", "echo hi", "", OnceConfig),
         CommandConfig("x", "echo hi; echo; echo bye", "", OnceConfig) >> }

BlankBroodConfigs == [failure_mode : {CONTINUE, KILL_OTHERS}, commands : BlankCommands]

InitBlank ==
    (\E c \in BlankBroodConfigs : MonitorInit(c)) /\ FanoutInit /\ CallerInit /\ ExecutorInit /\ DrainInit(<<>>)
    /\ ConfigFileInit("", <<>>)
    /\ RendererInit(INFO)

SpecBlank == InitBlank /\ [][NextOutput]_vars

----------------------------------------------------------------------------
(* drain_queue (src/brood/monitor.py) on a queue that other tasks put on,  *)
(* as in test_drain_queue                                                  *)

\* a loop that takes one item and then behaves as if the queue were empty
get_nowait_once(items, queue) ==
    IF queue = <<>> THEN items ELSE Append(items, <<Head(queue)>>)

\* drain_queue's loop from one QueueEmpty to the next: items.append(
\* queue.get_nowait()) until the queue is empty, without suspending
get_nowait_all(items, queue) ==
    IF queue = <<>> THEN items ELSE Append(items, queue)

\* what is left on the queue once the loop has taken items
Remaining(before, after, queue) ==
    SubSeq(queue, (IF after = before THEN 0 ELSE Len(after[Len(after)])) + 1, Len(queue))

\* await queue.put(item), by another task
QueuePut(item) ==
    /\ Len(dput) < MaxQueuePuts
    /\ dqueue' = Append(dqueue, item)
    /\ dput' = Append(dput, item)
    /\ UNCHANGED <<dbuffer, dtaken, dpc>>
    /\ UNCHANGED <<mvars, fvars, tvars, xvars, cvars, rvars>>

\* items = [await queue.get()] returns, and the loop runs to its first
\* QueueEmpty: with a buffer the sleep begins, without one the list is returned
DrainGet ==
    /\ dpc = "get"
    /\ dqueue # <<>>
    /\ dtaken' = get_nowait_all(dtaken, dqueue)
    /\ dqueue' = Remaining(dtaken, dtaken', dqueue)
    /\ dpc' = IF dbuffer # <<>> THEN "sleep" ELSE "returned"
    /\ UNCHANGED <<dput, dbuffer>>
    /\ UNCHANGED <<mvars, fvars, tvars, xvars, cvars, rvars>>

\* await sleep(buffer) ends: with the queue empty the list is returned,
\* otherwise the loop runs to its next QueueEmpty and sleeps again
DrainSleepEnds ==
    /\ dpc = "sleep"
    /\ dtaken' = get_nowait_all(dtaken, dqueue)
    /\ dqueue' = Remaining(dtaken, dtaken', dqueue)
    /\ dpc' = IF dqueue = <<>> THEN "returned" ELSE "sleep"
    /\ UNCHANGED <<dput, dbuffer>>
    /\ UNCHANGED <<mvars, fvars, tvars, xvars, cvars, rvars>>

\* drain_queue(queue) and drain_queue(queue, buffer=1)
InitDrain ==
    /\ MonitorInit([failure_mode |-> CONTINUE, commands |-> <<>>])
    /\ FanoutInit /\ CallerInit /\ ExecutorInit
    /\ \E b \in {<<>>, <<1>>} : DrainInit(b)
    /\ ConfigFileInit("", <<>>)
    /\ RendererInit(INFO)

NextDrain ==
    \/ \E item \in Items : QueuePut(item)
    \/ DrainGet
    \/ DrainSleepEnds

SpecDrain == InitDrain /\ [][NextDrain]_vars

----------------------------------------------------------------------------
(* BroodConfig.load and BroodConfig.save (src/brood/config.py) on a path,  *)
(* as in src/tests/test_config.py                                          *)

FORMATS == {"json", "toml", "yaml"}

\* the extensions of the paths
Extensions == {"json", "toml", "yaml", "yml", "wrong", ""}

\* a tagging that takes every file name for a JSON file
tags_from_filename_json(ext) == {"text", "json"}

\* identify.tags_from_filename: the tags of a file name, by its extension
tags_from_filename(ext) ==
    CASE ext = "json" -> {"text", "json"}
      [] ext = "toml" -> {"text", "toml"}
      [] ext \in {"yaml", "yml"} -> {"text", "yaml"}
      [] OTHER -> {}

\* identify.tags_from_path of a regular file: the tags of its name, and what
\* kind of file it is
tags_from_path(ext) == {"file", "non-executable", "text"} \cup tags_from_filename(ext)

\* "if not intersection": none of the tags is a format
NoFormat(tags) == tags \cap FORMATS = {}

\* for fmt in intersection: the format the for loop takes
FormatOf(tags) == CHOOSE fmt \in tags \cap FORMATS : TRUE

\* to_format(fmt), what path.write_text receives
ToFormat(c, fmt) == [format |-> fmt, config |-> <<c>>]

\* the text of an empty file
EmptyText == [format |-> "", config |-> <<>>]

\* from_<fmt>(text): the config, or the error of the parser or of pydantic
FromFormat(text, fmt) ==
    IF text.format = fmt
    THEN [result |-> "BroodConfig", value |-> text.config]
    ELSE [result |-> "ParseError", value |-> <<>>]

\* what a call of load or save ends with
Raises(exception) == [result |-> exception, value |-> <<>>]

\* config.save(path)
Save ==
    /\ Len(clog) < MaxConfigCalls
    /\ IF NoFormat(tags_from_filename(cext))
       THEN /\ clog' = Append(clog, [op |-> "save", end |-> Raises("UnknownFormat")])
            /\ UNCHANGED cfile
       ELSE /\ cfile' = <<ToFormat(config, FormatOf(tags_from_filename(cext)))>>
            /\ clog' = Append(clog, [op |-> "save", end |-> [result |-> "None", value |-> <<>>]])
    /\ UNCHANGED cext
    /\ UNCHANGED <<mvars, fvars, tvars, xvars, dvars, rvars>>

\* BroodConfig.load(path); identify.tags_from_path raises ValueError for a
\* path that does not exist
Load_ ==
    /\ Len(clog) < MaxConfigCalls
    /\ clog' = Append(clog,
          [op |-> "load",
           end |-> IF cfile = <<>> THEN Raises("ValueError")
                   ELSE IF NoFormat(tags_from_path(cext)) THEN Raises("UnknownFormat")
                   ELSE FromFormat(cfile[1], FormatOf(tags_from_path(cext)))])
    /\ UNCHANGED <<cext, cfile>>
    /\ UNCHANGED <<mvars, fvars, tvars, xvars, dvars, rvars>>

\* test_save_and_load, test_save_with_unknown_format and
\* test_load_with_unknown_format: any config, a path with any extension
\* where there is no file, an empty file (p.touch()) or a saved config
InitConfigFile ==
    /\ \E c \in BroodConfigs : MonitorInit(c)
    /\ FanoutInit /\ CallerInit /\ ExecutorInit /\ DrainInit(<<>>)
    /\ \E ext \in Extensions :
         \E file \in {<<>>, <<EmptyText>>} \cup {<<ToFormat(config, fmt)>> : fmt \in FORMATS} :
            ConfigFileInit(ext, file)
    /\ RendererInit(INFO)

NextConfigFile ==
    \/ Save
    \/ Load_

SpecConfigFile == InitConfigFile /\ [][NextConfigFile]_vars

----------------------------------------------------------------------------
(* The Renderer's handle_messages with any verbosity option, on messages   *)
(* of every verbosity                                                      *)

MaxRendered == 3

Verbosities == {DEBUG, INFO, WARNING, ERROR}

\* an InternalMessage of each verbosity and a CommandMessage (which has no
\* verbosity: "")
RendererMessages ==
    {[type |-> "internal", text |-> <<"t">>, verbosity |-> v] : v \in Verbosities}
        \cup {[type |-> "command", text |-> <<"h", "i">>, verbosity |-> ""]}

\* messages.put(message), by the Monitor or a Command
RendererPut(message) ==
    /\ Len(rgot) + Len(rmessages) < MaxRendered
    /\ rmessages' = Append(rmessages, message)
    /\ UNCHANGED <<rverbosity, rgot, rshown>>
    /\ UNCHANGED <<mvars, fvars, tvars, xvars, dvars, cvars>>

\* Renderer.handle_messages: one pass of its loop
RendererHandle ==
    /\ rmessages # <<>>
    /\ rmessages' = Tail(rmessages)
    /\ rgot' = Append(rgot, Head(rmessages))
    /\ rshown' = IF Handled(Head(rmessages), rverbosity)
                 THEN Append(rshown, Head(rmessages))
                 ELSE rshown
    /\ UNCHANGED rverbosity
    /\ UNCHANGED <<mvars, fvars, tvars, xvars, dvars, cvars>>

InitRenderer ==
    /\ \E c \in BroodConfigs : MonitorInit(c)
    /\ FanoutInit /\ CallerInit /\ ExecutorInit /\ DrainInit(<<>>)
    /\ ConfigFileInit("", <<>>)
    /\ \E v \in Verbosities : RendererInit(v)

NextRenderer ==
    \/ \E message \in RendererMessages : RendererPut(message)
    \/ RendererHandle

SpecRenderer == InitRenderer /\ [][NextRenderer]_vars

----------------------------------------------------------------------------
(* A Restart command beside a command that runs once                       *)

DelayCommands ==
    { << CommandConfig("r", "echo hi", "", RestartConfig),
         CommandConfig("b", "exit 0", "", OnceConfig) >>,
      << CommandConfig("r", "echo hi", "", RestartConfig),
         CommandConfig("b", "exit 1", "", OnceConfig) >> }

DelayBroodConfigs == [failure_mode : {CONTINUE, KILL_OTHERS}, commands : DelayCommands]

InitDelay ==
    (\E c \in DelayBroodConfigs : MonitorInit(c)) /\ FanoutInit /\ CallerInit /\ ExecutorInit /\ DrainInit(<<>>)
    /\ ConfigFileInit("", <<>>)
    /\ RendererInit(INFO)

NextDelay ==
    \/ \E s \in inflight : BootStart(s)
    \/ \E i \in DOMAIN cmds : ProcExit(i)
    \/ \E i \in DOMAIN cmds : ReadLine(i)
    \/ \E i \in DOMAIN cmds : WaiterTask(i)
    \/ HandleEvent
    \/ HandlerRestart

SpecDelay == InitDelay /\ [][NextDelay]_vars

----------------------------------------------------------------------------
(* A command whose output is not UTF-8, beside one whose output is         *)

ReaderCommands ==
    { << CommandConfig("x", "cat image.png; echo hi", "", OnceConfig),
         CommandConfig("y", "echo hi", "", OnceConfig) >>,
      << CommandConfig("y", "echo hi", "", OnceConfig),
         CommandConfig("x", "cat image.png; echo hi", "", OnceConfig) >> }

ReaderBroodConfigs == [failure_mode : {CONTINUE, KILL_OTHERS}, commands : ReaderCommands]

InitReader ==
    (\E c \in ReaderBroodConfigs : MonitorInit(c)) /\ FanoutInit /\ CallerInit /\ ExecutorInit /\ DrainInit(<<>>)
    /\ ConfigFileInit("", <<>>)
    /\ RendererInit(INFO)

NextReader ==
    \/ \E s \in inflight : BootStart(s)
    \/ \E i \in DOMAIN cmds : ProcExit(i)
    \/ \E i \in DOMAIN cmds : ReadLine(i)
    \/ \E i \in DOMAIN cmds : ReadFails(i)
    \/ \E i \in DOMAIN cmds : WaiterTask(i)
    \/ HandleEvent

SpecReader == InitReader /\ [][NextReader]_vars

----------------------------------------------------------------------------
(* Properties                                                              *)

\* what a consumer of the events Fanout created before every start and
\* never read from holds: every event published, in order
EventLog == events[1]

\* what the consumer of the messages Fanout holds: the CommandMessages
MessageLog == messages[1]

Positions(type, i) == {k \in DOMAIN EventLog : EventLog[k] = Event(i, type)}

Max(S) == CHOOSE x \in S : \A y \in S : x >= y

\* C1: every Command has at most one Started and at most one Stopped event
\* on a consumer that saw its start, however often wait() is awaited, and
\* its Started precedes its Stopped
C1_OneStartedOneStopped ==
    \A i \in DOMAIN cmds :
        /\ Cardinality(Positions("Started", i)) = 1
        /\ Cardinality(Positions("Stopped", i)) <= 1
        /\ \A k \in Positions("Stopped", i) : \A j \in Positions("Started", i) : j < k

\* C2: once __aexit__ has returned, the Monitor holds no Command and no
\* child the Monitor spawned is alive, whatever was in flight when it began
C2_NothingSurvivesShutdown ==
    aexit = "returned" =>
        /\ managers = {}
        /\ \A i \in DOMAIN cmds : has_exited(cmds[i])

\* a step of handle_managers that takes a Stopped event off its queue
HandlesStopped ==
    /\ events[2] # <<>>
    /\ events'[2] = Tail(events[2])
    /\ Head(events[2]).type = "Stopped"

\* C3: handle_managers raises KillOthers for a Stopped event exactly when
\* the failure mode is KILL_OTHERS, the exit code is not 0 and the command
\* was not killed; no other Stopped event ends a run that is in progress
C3_KillOthersIff ==
    [][HandlesStopped =>
        /\ (handler' = "KillOthers")
              <=> ShouldKillOthers(config.failure_mode, cmds[Head(events[2]).command])
        /\ (run = "wait" /\ ~ShouldKillOthers(config.failure_mode, cmds[Head(events[2]).command]))
              => handler' \notin {"KillOthers", "ValueError"}]_vars

\* the AfterStarter of config c after the events of log were delivered to it
RECURSIVE Delivered(_, _)
Delivered(s, log) ==
    IF log = <<>> THEN s
    ELSE Delivered(AfterStarter_handle_event(s, Head(log).type,
                                             cmds[Head(log).command].exit_code,
                                             cmds[Head(log).command].config.name),
                   Tail(log))

\* the events published between the previous start of i's config and i's start
SinceLastStart(i) ==
    LET k == Min(Positions("Started", i))
        before == {j \in 1..(k - 1) : /\ EventLog[j].type = "Started"
                                      /\ cmds[EventLog[j].command].config = cmds[i].config}
        from == IF before = {} THEN 1 ELSE Max(before) + 1
    IN SubSeq(EventLog, from, k - 1)

\* C4: a command with the After starter is started only when every command
\* it waits for has stopped with exit code 0 since its last start
C4_AfterOnlyWhenDone ==
    \A i \in DOMAIN cmds :
        (cmds[i].config.starter.type = "after" /\ Positions("Started", i) # {}) =>
            AfterStarter_can_start(
                Delivered(AfterStarter(cmds[i].config.starter.after), SinceLastStart(i)))

\* C5: at most one Command of a Watch config with allow_multiple = false is
\* live (running, or held in managers) at any time
C5_AtMostOneLiveWatch ==
    \A c \in WatchConfigs :
        ~c.starter.allow_multiple =>
            /\ Cardinality({i \in DOMAIN cmds : cmds[i].config = c /\ ~has_exited(cmds[i])}) <= 1
            /\ Cardinality({i \in managers : cmds[i].config = c}) <= 1

\* a step that publishes a CommandMessage of Command i
PublishesMessageOf(i) ==
    /\ Len(messages'[1]) > Len(messages[1])
    /\ messages'[1][Len(messages'[1])].command = i

\* C6: a CommandMessage of a Command is published after its Started and
\* before its Stopped event: when Stopped is published the reader is at EOF
C6_MessagesBetweenStartedAndStopped ==
    /\ [](\A i \in DOMAIN cmds : Positions("Stopped", i) # {} => ReaderDone(cmds[i]))
    /\ [][\A i \in DOMAIN cmds :
            PublishesMessageOf(i) =>
                /\ Positions("Started", i) # {}
                /\ Positions("Stopped", i) = {}
                /\ ~(\E k \in DOMAIN events'[1] : events'[1][k] = Event(i, "Stopped"))]_vars

C6_Witness ==
    \E i \in DOMAIN cmds :
        /\ \E k \in DOMAIN MessageLog : MessageLog[k].command = i
        /\ Positions("Started", i) # {}
        /\ Positions("Stopped", i) # {}

\* C7: a consumer receives exactly the items put after its consumer() call,
\* each once and in put order (what it has taken, then what its queue holds)
C7_ExactlyThePutsSinceJoin ==
    \A i \in DOMAIN fq :
        fgot[i] \o fq[i] = SubSeq(fput, fjoin[i] + 1, Len(fput))

C7_Witness ==
    /\ Len(fq) = 2
    /\ fjoin[1] = 0 /\ fjoin[2] = 0
    /\ Len(fput) >= 2
    /\ fgot[1] = fput
    /\ fq[2] = fput

\* C8: consumers are independent and put never waits for them: a put is
\* possible whatever the queues hold and appends to every queue, and a
\* consumer's get changes no other consumer's queue or received items
C8_ConsumersIndependent ==
    /\ [](Len(fput) < MaxPuts => \A item \in Items : ENABLED FPut(item))
    /\ [][/\ fput' # fput =>
               \A i \in DOMAIN fq : fq'[i] = Append(fq[i], fput'[Len(fput')])
          /\ \A i \in DOMAIN fq :
               (i \in DOMAIN fgot' /\ fgot'[i] # fgot[i]) =>
                   \A j \in DOMAIN fq \ {i} : fq'[j] = fq[j] /\ fgot'[j] = fgot[j]]_vars

C8_Witness ==
    /\ Len(fq) = 2
    /\ Len(fq[2]) = MaxPuts
    /\ fgot[2] = <<>>
    /\ Len(fgot[1]) = MaxPuts

C10_OnceStartedOnce ==
    \A k \in DOMAIN config.commands :
        config.commands[k].starter.type = "once" =>
            LET mine == {i \in DOMAIN cmds : cmds[i].config = config.commands[k]}
            IN /\ Cardinality(mine) <= 1
               /\ \A i \in mine : /\ Cardinality(Positions("Started", i)) = 1
                                  /\ Cardinality(Positions("Stopped", i)) <= 1

\* C11: a command with the After starter and no prerequisite is started at
\* boot, whatever the other commands do, and never again: once boot is over
\* there is exactly one Command of its config, whatever events follow
C11_AfterEmptyStartedOnceAtBoot ==
    \A k \in DOMAIN config.commands :
        (config.commands[k].starter.type = "after" /\ config.commands[k].starter.after = {}) =>
            LET mine == {i \in DOMAIN cmds : cmds[i].config = config.commands[k]}
            IN /\ Cardinality(mine) <= 1
               /\ run # "start" => Cardinality(mine) = 1

\* the After command without prerequisites has exited and handle_managers
\* has handled its Stopped event while run is in progress
C11_Witness ==
    /\ aexit = "none"
    /\ handler = "idle"
    /\ events[2] = <<>>
    /\ \E i \in DOMAIN cmds :
        /\ cmds[i].config.starter.type = "after"
        /\ cmds[i].config.starter.after = {}
        /\ Positions("Stopped", i) # {}
        /\ i \notin managers

\* the configured commands that have a shutdown command
WithShutdown == {config.commands[k] : k \in {j \in DOMAIN config.commands :
                                                config.commands[j].shutdown # ""}}

\* C12: when a shutdown command is started, every Command of its parent config
\* that was started before it has published its Stopped event
C12_ShutdownAfterParentStopped ==
    \A p \in WithShutdown :
        \A j \in DOMAIN cmds :
            cmds[j].config = shutdown_config(p) =>
                \A i \in DOMAIN cmds :
                    (cmds[i].config = p /\ i < j) =>
                        \E k \in Positions("Stopped", i) : k < Min(Positions("Started", j))

\* the number of windows of handle_watchers in which config c was drained
Windows(c) == CopiesIn(PathMessage(c), internal)

\* C13: every window of handle_watchers that drained file events of a config
\* starts exactly one Command of it, however many events the window drained
C13_OneStartPerWindow ==
    \A c \in WatchConfigs :
        run # "start" =>
            /\ Cardinality({i \in DOMAIN cmds : cmds[i].config = c})
                 + Cardinality({s \in InFlight("watch") : s.config = c}) = 1 + Windows(c)
            /\ Windows(c) <= nfile
            /\ (nfile > 0 /\ wqueue = <<>> /\ starts = <<>>) => Windows(c) >= 1

\* two file events of one window were answered by one start
C13_Witness ==
    /\ nfile = 2
    /\ wqueue = <<>> /\ starts = <<>> /\ watcher = "idle"
    /\ \E c \in WatchConfigs :
        /\ Windows(c) = 1
        /\ Cardinality({i \in DOMAIN cmds : cmds[i].config = c}) = 2

\* C14: when handle_watchers starts a Command of a Watch config that does
\* not allow multiple instances, terminate() was called on every Command of
\* the config that was still running; a config that allows multiple
\* instances has none of its Commands terminated by a file event
C14_TerminatedBeforeRestart ==
    \A i \in DOMAIN cmds : \A j \in DOMAIN cmds :
        (i < j /\ cmds[i].config = cmds[j].config /\ cmds[i].config.starter.type = "watch") =>
            IF cmds[i].config.starter.allow_multiple
            THEN ~cmds[i].was_killed /\ ~cmds[j].was_killed
            ELSE cmds[i].was_killed \/ has_exited(cmds[i])

\* a second Command of a config that does not allow multiple instances was
\* started while the first, terminated, had not exited yet
C14_Witness ==
    \E i \in DOMAIN cmds : \E j \in DOMAIN cmds :
        /\ i < j
        /\ cmds[i].config = cmds[j].config
        /\ cmds[i].config.starter.type = "watch"
        /\ ~cmds[i].config.starter.allow_multiple
        /\ cmds[i].was_killed
        /\ ~has_exited(cmds[i])

\* a step in which a caller calls terminate() or kill() on Command i
Called(i) ==
    /\ calls' # calls
    /\ calls'[Len(calls')][2] = i

\* C15: terminate() or kill() on a Command that has exited changes nothing:
\* no signal, no message, was_killed as it was
C15_NoOpAfterExit ==
    [][\A i \in DOMAIN cmds : (Called(i) /\ has_exited(cmds[i])) => UNCHANGED mvars]_vars

\* terminate() or kill() was called on a Command that had exited by itself
C15_Witness ==
    \E i \in DOMAIN cmds :
        /\ \E k \in DOMAIN calls : calls[k][2] = i
        /\ has_exited(cmds[i])
        /\ ~cmds[i].was_killed

C17_KillOthersTerminatesRest ==
    /\ []((handler = "KillOthers" /\ aexit \notin {"none", "terminate"}) =>
            \A i \in DOMAIN cmds \ {harg[1]} :
                cmds[i].config \in Range(config.commands) =>
                    \/ cmds[i].was_killed
                    \/ has_exited(cmds[i]) /\ cmds[i].exit_code[1] >= 0)
    /\ [](\A i \in DOMAIN cmds :
            cmds[i].was_killed => ~ShouldKillOthers(config.failure_mode, cmds[i]))
    /\ [][handler = "KillOthers" => (handler' = "KillOthers" /\ harg' = harg)]_vars

\* KillOthers was raised for one command, another was terminated by the
\* Monitor and has exited of the signal, and the shutdown has completed
C17_Witness ==
    /\ handler = "KillOthers"
    /\ aexit = "returned"
    /\ \E i \in DOMAIN cmds \ {harg[1]} :
        /\ cmds[i].was_killed
        /\ cmds[i].exit_code = <<-SIGTERM>>

\* __aexit__ was awaited again after it had returned
Again == \E k \in DOMAIN calls : calls[k][1] = "__aexit__"

\* C18: a second run of the shutdown protocol ends without error, with no
\* Command held and no child alive
C18_ShutdownIdempotent ==
    Again =>
        /\ aexit # "ValueError"
        /\ aexit = "returned" =>
              /\ managers = {}
              /\ \A i \in DOMAIN cmds : has_exited(cmds[i])

\* C19: when the renderer is unmounted, every message put on the messages
\* Fanout before Monitor.stop ended has been taken off the renderer's queue
C19_AllMessagesRenderedBeforeUnmount ==
    xphase \in {"unmounted", "exited"} => xq = 0

KillingMessages ==
    {m \in BagToSet(internal) :
        m.text[1] = "Killing other processes due to command failing with code"}

C22_TermThenKill ==
    /\ [](\A i \in DOMAIN cmds : cmds[i].sigkill => cmds[i].sigterm)
    /\ \A i \in 1..MaxCmds :
          (i \in DOMAIN cmds /\ aexit # "none" /\ cmds[i].sigterm /\ ~has_exited(cmds[i]))
              ~> (i \in DOMAIN cmds /\ (has_exited(cmds[i]) \/ cmds[i].sigkill))

\* the CommandMessages of Command i, in the order they were put
MessagesOf(i) ==
    LET Mine(m) == m.command = i
    IN SelectSeq(MessageLog, Mine)

\* the lines of Command i that its reader has read
LinesRead(i) ==
    SubSeq(Output(cmds[i].config.command), 1,
           Len(Output(cmds[i].config.command)) - Len(cmds[i].stdout))

\* a line without its trailing newline
WithoutNewline(line) ==
    IF line # <<>> /\ line[Len(line)] = "\n" THEN SubSeq(line, 1, Len(line) - 1) ELSE line

\* a line up to its last character that is not whitespace
WithoutTrailingWhitespace(line) ==
    SubSeq(line, 1, Max({0} \cup {k \in DOMAIN line : line[k] \notin Whitespace}))

\* C23 as stated: the CommandMessages of a Command are, one per line and in
\* the order written, the lines it wrote without their trailing newline,
\* each with the Command's own config; all lines once its wait() is done
C23_OneMessagePerLine ==
    \A i \in DOMAIN cmds :
        /\ MessagesOf(i) = [k \in DOMAIN LinesRead(i) |->
                               CommandMessage(WithoutNewline(LinesRead(i)[k]), cmds[i].config, i)]
        /\ cmds[i].waiter = "done" => LinesRead(i) = Output(cmds[i].config.command)

\* C23, amended: the text of each CommandMessage is the line without its
\* trailing whitespace (the newline and any blanks before it)
C23_OneStrippedMessagePerLine ==
    \A i \in DOMAIN cmds :
        /\ MessagesOf(i) = [k \in DOMAIN LinesRead(i) |->
                               CommandMessage(WithoutTrailingWhitespace(LinesRead(i)[k]),
                                              cmds[i].config, i)]
        /\ cmds[i].waiter = "done" => LinesRead(i) = Output(cmds[i].config.command)

\* two Commands have written all their lines, the line of one between the
\* two lines of the other, and both wait() are done
C23_Witness ==
    /\ Len(MessageLog) = 3
    /\ MessageLog[1].command = MessageLog[3].command
    /\ MessageLog[2].command # MessageLog[1].command
    /\ \A i \in DOMAIN cmds : cmds[i].waiter = "done"

\* the exit statuses the child of a Command can end with: its own, or the
\* negated number of a signal it was sent
ExitStatuses(cmd) ==
    {ExitStatus(cmd.config.command)}
        \cup (IF cmd.sigterm THEN {<<-SIGTERM>>} ELSE {})
        \cup (IF cmd.sigkill THEN {<<-SIGKILL>>} ELSE {})

\* C24: a Command is created with has_exited false, has_exited never goes
\* back to false and the exit code never changes once set, and when wait()
\* has returned has_exited is true and exit_code is the child's exit status
C24_HasExitedLifecycle ==
    /\ [](\A i \in DOMAIN cmds :
            cmds[i].waiter = "done" =>
                /\ has_exited(cmds[i])
                /\ cmds[i].exit_code \in ExitStatuses(cmds[i]) \ {<<>>})
    /\ [][/\ \A i \in DOMAIN cmds' \ DOMAIN cmds : ~has_exited(cmds'[i])
          /\ \A i \in DOMAIN cmds :
                has_exited(cmds[i]) => cmds'[i].exit_code = cmds[i].exit_code]_vars

\* wait() has returned for a command that exited by itself with status 1,
\* although terminate() was called on it afterwards
C24_Witness ==
    \E i \in DOMAIN cmds :
        /\ cmds[i].waiter = "done"
        /\ cmds[i].exit_code = <<1>>
        /\ \E k \in DOMAIN calls : calls[k] = <<"terminate", i>>

\* the list drain_queue returns: the items of every pass, in order
RECURSIVE Flatten(_)
Flatten(batches) ==
    IF batches = <<>> THEN <<>> ELSE Head(batches) \o Flatten(Tail(batches))

\* a step of drain_queue (a put by another task lengthens dput)
DrainStep == dput' = dput /\ <<dqueue, dtaken, dpc>>' # <<dqueue, dtaken, dpc>>

\* C25: drain_queue returns only after it found an item; what it returns is
\* not empty and is, in order, everything put on the queue except what
\* the queue still holds; without a buffer it returns exactly what the queue
\* held when it first found it not empty; with a buffer every sleep that ends
\* with items on the queue takes them all and sleeps again, and the first
\* sleep that ends with the queue empty returns
C25_DrainQueue ==
    /\ [](Flatten(dtaken) \o dqueue = dput)
    /\ [](dpc = "returned" => Flatten(dtaken) # <<>>)
    /\ [][(DrainStep /\ dpc = "get") =>
             /\ dqueue # <<>>
             /\ Flatten(dtaken') = dqueue
             /\ dqueue' = <<>>
             /\ dpc' = IF dbuffer = <<>> THEN "returned" ELSE "sleep"]_vars
    /\ [][(DrainStep /\ dpc = "sleep") =>
             /\ dbuffer # <<>>
             /\ Flatten(dtaken') = Flatten(dtaken) \o dqueue
             /\ dqueue' = <<>>
             /\ dpc' = IF dqueue = <<>> THEN "returned" ELSE "sleep"]_vars
    /\ [][dpc = "returned" => (dpc' = "returned" /\ dtaken' = dtaken)]_vars

\* test_drain_queue: one item was on the queue at the call, a second one
\* arrived during the buffer sleep, and [0, 1] was returned
C25_Witness ==
    /\ dbuffer = <<1>>
    /\ dpc = "returned"
    /\ dtaken = << <<0>>, <<1>> >>

\* a step that is a call of load or save
ConfigCall(op) == clog' # clog /\ clog'[Len(clog')].op = op

C27_ShutdownCompletes ==
    (aexit = "terminate") ~> (aexit = "returned" /\ managers = {} /\ events[2] = <<>>)

\* C28: when the reader of a Command has failed and its waiter has ended,
\* stop_time is recorded and exactly one Stopped event was published for
\* the Command
C28_ReaderFailureStillStops ==
    \A i \in DOMAIN cmds :
        (cmds[i].reader = "failed" /\ cmds[i].waiter # "waiting") =>
            /\ cmds[i].stop_time
            /\ Cardinality(Positions("Stopped", i)) = 1

\* C29: while the Monitor runs and the delayed start of a Restart command is
\* pending, the event handler can still take a Started or Stopped event of
\* another command from its queue
C29_DelayDoesNotBlockHandler ==
    (/\ run = "wait"
     /\ handler = "delay"
     /\ events[2] # <<>>
     /\ cmds[Head(events[2]).command].config # harg[1]) => ENABLED HandleEvent

\* C30: a step of the event handler on a Started event leaves the Command
\* in the live set; on a Stopped event it leaves the live set without the
\* Command, and when the Command was not in the live set the step raises
\* nothing and the live set is unchanged
C30_HandlerMaintainsLiveSet ==
    [][HandleEvent =>
          LET event == Head(events[2])
          IN IF event.type = "Started"
             THEN managers' = managers \cup {event.command}
             ELSE /\ managers' = managers \ {event.command}
                  /\ event.command \notin managers =>
                         (handler' = handler /\ managers' = managers)]_vars

\* C31: every step that changes the live set is a step of the event handler
\* taking an event from its queue: start_command, the file-event handler
\* and the shutdown phases leave the set as it was
C31_LiveSetOwnedByHandler ==
    [][managers' # managers => HandleEvent]_vars

\* C32: when the observer of a Watch command has failed to start, run has
\* not ended, the shutdown protocol has not begun and no Command was sent a
\* signal because of it
C32_WatcherFailureIsContained ==
    watcher = "OSError" =>
        /\ run = "wait"
        /\ aexit = "none"
        /\ exc = "None"

\* the events C33 says are enqueued: of a file, not matched by the nearest
\* .gitignore (a path in no repository is matched by none)
NotIgnoredFile(event) == ~event.is_directory /\ event.src_path.gitignore # "matches"

\* C33: every modify, create or delete event dispatched to the handler of a
\* Watch command puts that command's config on the queue exactly when the
\* event is of a file that the nearest .gitignore does not match
C33_EnqueuesUnignoredFiles ==
    [][\A c \in WatchConfigs : \A event \in FileSystemEvents :
          Dispatch(c, event) =>
              (wqueue' = Append(wqueue, c) <=> NotIgnoredFile(event))]_vars

\* the line holds nothing but its newline
Blank(line) == line = <<"\n">>

\* C34 as stated: the CommandMessages of a Command are those of the lines
\* it wrote that are not blank, none for a blank line, and its reader has
\* read every line, those after a blank line too, once its wait() is done
C34_NoMessageForBlankLine ==
    \A i \in DOMAIN cmds :
        /\ Len(MessagesOf(i)) = Cardinality({k \in DOMAIN LinesRead(i) : ~Blank(LinesRead(i)[k])})
        /\ \A k \in DOMAIN MessagesOf(i) : MessagesOf(i)[k].text # <<>>
        /\ cmds[i].waiter = "done" => LinesRead(i) = Output(cmds[i].config.command)

\* C34, amended: every line read has its CommandMessage, with an empty text
\* exactly for a blank line, and the reader has read every line, those
\* after a blank line too, once its wait() is done
C34_MessageForEveryLine ==
    \A i \in DOMAIN cmds :
        /\ Len(MessagesOf(i)) = Len(LinesRead(i))
        /\ \A k \in DOMAIN MessagesOf(i) : MessagesOf(i)[k].text = <<>> <=> Blank(LinesRead(i)[k])
        /\ cmds[i].waiter = "done" => LinesRead(i) = Output(cmds[i].config.command)

\* a Command has written a blank line between two others, all three were
\* read and its wait() is done
C34_Witness ==
    \E i \in DOMAIN cmds :
        /\ cmds[i].waiter = "done"
        /\ Len(LinesRead(i)) = 3
        /\ Blank(LinesRead(i)[2])
        /\ Len(MessagesOf(i)) = 3

\* the Commands started with the shutdown config of the k-th command config
ShutdownCommandsOf(k) ==
    {i \in DOMAIN cmds : cmds[i].config = shutdown_config(config.commands[k])}

\* C35: there is never more than one Command of the shutdown config of a
\* command config, none for a config without a shutdown, and exactly one
\* for a config with a shutdown once Monitor.shutdown has started its
\* commands; such a Command has one Started event and at most one Stopped
\* event, exactly one when __aexit__ has returned
C35_OneShutdownCommandEach ==
    \A k \in DOMAIN config.commands :
        /\ Cardinality(ShutdownCommandsOf(k)) <= 1
        /\ config.commands[k].shutdown = "" => ShutdownCommandsOf(k) = {}
        /\ (config.commands[k].shutdown # "" /\ aexit \in {"wait2", "waiting2", "returned"}) =>
               Cardinality(ShutdownCommandsOf(k)) = 1
        /\ \A i \in ShutdownCommandsOf(k) :
               /\ Cardinality(Positions("Started", i)) = 1
               /\ Cardinality(Positions("Stopped", i)) <= 1
               /\ aexit = "returned" => Cardinality(Positions("Stopped", i)) = 1

\* C36: once the terminate phase of __aexit__ has sent its signals and
\* stopped the watchers, every Command that is started is a shutdown command
C36_NoPrimaryStartInShutdown ==
    [][(stopped /\ Len(cmds') > Len(cmds)) =>
          cmds'[Len(cmds')].config \in shutdown_commands]_vars

\* the Commands of a config that are spawned and have not exited
Live(c) == {i \in DOMAIN cmds : cmds[i].config = c /\ ~has_exited(cmds[i])}

\* C37: at most one Command of a config whose starter is Once, Restart or
\* After is spawned and not yet exited, whether or not the event handler has
\* processed its Started event
C37_OneLiveCommandPerConfig ==
    \A i \in DOMAIN cmds :
        cmds[i].config.starter.type # "watch" => Cardinality(Live(cmds[i].config)) <= 1

\* a Restart command was started again after it exited: the new Command is
\* live and the event handler has not yet taken its Started event
C37_Witness ==
    \E i, j \in DOMAIN cmds :
        /\ i < j
        /\ cmds[i].config = cmds[j].config
        /\ cmds[j].config.starter.type = "restart"
        /\ has_exited(cmds[i])
        /\ ~has_exited(cmds[j])
        /\ Event(j, "Started") \in Range(events[2])

\* C38 says a message is displayed: a CommandMessage always, an
\* InternalMessage when its verbosity is at least the Renderer's in the
\* order Debug < Info < Warning < Error
AtLeastAsSevere(message) ==
    message.type = "internal" =>
        Verbosity__int__(message.verbosity) >= Verbosity__int__(rverbosity)

C39_RunOutlivesIdleWatcher ==
    /\ [](\/ WatchConfigs # {}
          \/ run \notin {"start", "wait"}
          \/ \A i \in DOMAIN cmds : ~cmds[i].sigterm /\ ~cmds[i].sigkill)
    /\ [][(WatchConfigs = {} /\ run = "wait" /\ run' # "wait") =>
             (handler \in {"KillOthers", "ValueError"} \/ exc' = "CancelledError")]_vars

\* no Watch command: one Command has exited and the event handler has
\* handled its Stopped event, another is alive, and run is still waiting
C39_Witness ==
    /\ WatchConfigs = {}
    /\ run = "wait"
    /\ handler = "idle"
    /\ events[2] = <<>>
    /\ \E i, j \in DOMAIN cmds :
          /\ ~has_exited(cmds[i])
          /\ i \in managers
          /\ has_exited(cmds[j])
          /\ j \notin managers

====
